---- MODULE Spec2Model ----
(***************************************************************************)
(* A model of the simplecrawl fetch pipeline: the URL safety gate          *)
(* (app/utils/url_validator.py), the page fetch (app/core/scraper.py), the *)
(* crawl frontier loop (app/core/crawler.py), the batch executor, the      *)
(* site mapper and the analyze endpoint, over the browser-context pool     *)
(* (app/core/browser.py) and the proxy pool (app/core/proxy.py).           *)
(*                                                                         *)
(* Strings are sequences of tokens: a URL is <<scheme, "://", host tokens, *)
(* "/", segment, ...>>; prefix tests and glob matching work on the tokens. *)
(***************************************************************************)
EXTENDS Integers, Sequences, FiniteSets, TLC

VARIABLES
    mode,            \* which entry point this run exercises
    pc,              \* position of the entry point's code
    op_url,          \* the caller-supplied URL (scrape, map, analyze, crawl start)
    config,          \* crawl configuration (limit, depth, patterns, formats, headers)
    visited,         \* _crawl_async: visited
    to_visit,        \* _crawl_async: to_visit, a list of <<url, depth>>
    results,         \* _crawl_async: results, a list of [url, depth]
    job,             \* the CrawlJob row of the job store
    fetch_log,       \* history: one entry per scrape_url call of the crawl loop
    oplog,           \* history: the events of the latest fetch operation, in order
    verdict,         \* the validate_url result seen by the latest scrape_url call
    batch_urls,      \* _batch_scrape_async: urls
    batch_state,     \* per input position: "waiting", "running", "done"
    batch_results,   \* per input position: the record returned by scrape_with_semaphore
    semaphore,       \* free permits of asyncio.Semaphore(max_concurrent_requests)
    browser_pool,    \* the BrowserPool object (app/core/browser.py)
    proxy_pool,      \* the ProxyPool object (app/core/proxy.py); None when not configured
    in_flight,       \* the get_context calls made by concurrent tasks, in order
    now              \* the clock read by datetime.utcnow(), in seconds

vars == <<mode, pc, op_url, config, visited, to_visit, results, job, fetch_log,
          oplog, verdict, batch_urls, batch_state, batch_results, semaphore,
          browser_pool, proxy_pool, in_flight, now>>

crawl_vars == <<config, visited, to_visit, results, job, fetch_log>>
batch_vars == <<batch_urls, batch_state, batch_results, semaphore>>
pool_vars  == <<browser_pool, proxy_pool, in_flight>>

None == "None"

\* None where the value is otherwise a time (datetime.min sorts the same way)
NoTime == 0 - 1

(***************************************************************************)
(* Sequence helpers.                                                       *)
(***************************************************************************)
Range(s) == { s[i] : i \in DOMAIN s }

startswith(s, prefix) ==
    /\ Len(prefix) <= Len(s)
    /\ SubSeq(s, 1, Len(prefix)) = prefix

\* index of the first element of s that lies in set S, or Len(s)+1
RECURSIVE FirstIn(_, _, _)
FirstIn(s, S, i) ==
    IF i > Len(s) THEN Len(s) + 1
    ELSE IF s[i] \in S THEN i
    ELSE FirstIn(s, S, i + 1)

\* index of the last element of s that lies in set S, or 0
RECURSIVE LastIn(_, _, _)
LastIn(s, S, i) ==
    IF i < 1 THEN 0
    ELSE IF s[i] \in S THEN i
    ELSE LastIn(s, S, i - 1)

\* str.lower() on one token
LowerTok(t) ==
    CASE t = "HTTP"      -> "http"
      [] t = "HTTPS"     -> "https"
      [] t = "LOCALHOST" -> "localhost"
      [] t = "Metadata.Google.Internal" -> "metadata.google.internal"
      [] t = "Enable JavaScript and cookies to continue"
             -> "enable javascript and cookies to continue"
      [] t = "Just a moment..." -> "just a moment..."
      [] t = "JUST A MOMENT..." -> "just a moment..."
      [] t = "Checking your browser"   -> "checking your browser"
      [] t = "Verifying you are human" -> "verifying you are human"
      [] t = "Please enable cookies"   -> "please enable cookies"
      [] t = "Please turn JavaScript on" -> "please turn javascript on"
      [] t = "Access denied"    -> "access denied"
      [] t = "Error 1005"       -> "error 1005"
      [] t = "Error 1006"       -> "error 1006"
      [] t = "Error 1015"       -> "error 1015"
      [] t = "Attention Required! | Cloudflare"
             -> "attention required! | cloudflare"
      [] t = "Ray ID:"          -> "ray id:"
      [] OTHER -> t   \* every other token of the model is already lower case

Lower(s) == [i \in DOMAIN s |-> LowerTok(s[i])]

(***************************************************************************)
(* urllib.parse.urlparse on token strings.                                 *)
(***************************************************************************)
\* _hostinfo: host and port of a netloc whose userinfo has been dropped
hostinfo(info) ==
    LET open      == FirstIn(info, {"["}, 1)
        close     == FirstIn(info, {"]"}, 1)
        bracketed == open <= Len(info)
        colon     == IF bracketed
                     THEN FirstIn(info, {":"}, close + 1)
                     ELSE FirstIn(info, {":"}, 1)
    IN  [hostname |-> IF bracketed
                      THEN SubSeq(info, open + 1, close - 1)
                      ELSE SubSeq(info, 1, colon - 1),
         port     |-> SubSeq(info, colon + 1, Len(info))]

\* the netloc without its userinfo (everything up to the last "@")
drop_userinfo(netloc) ==
    SubSeq(netloc, LastIn(netloc, {"@"}, Len(netloc)) + 1, Len(netloc))

\* the parse result of a URL split into scheme, netloc and path
ParseResult(scheme, netloc, path) ==
    [scheme   |-> scheme,
     netloc   |-> netloc,
     path     |-> path,
     hostname |-> Lower(hostinfo(drop_userinfo(netloc)).hostname),  \* <<>>: None
     port     |-> hostinfo(drop_userinfo(netloc)).port]             \* <<>>: None

\* the text after "scheme://": the netloc ends at the first "/", "?" or "#"
urlsplit(scheme, rest) ==
    ParseResult(scheme,
                SubSeq(rest, 1, FirstIn(rest, {"/", "?", "#"}, 1) - 1),
                SubSeq(rest, FirstIn(rest, {"/", "?", "#"}, 1), Len(rest)))

urlparse(url) ==
    IF Len(url) >= 2 /\ url[2] = "://"
    THEN urlsplit(LowerTok(url[1]), SubSeq(url, 3, Len(url)))
    ELSE ParseResult("", <<>>, url)

\* int(port) for the port strings of the model; a string outside the table
\* is not all digits
PortDigits ==
    [t \in {"80", "8080", "22", "6379", "99999"} |->
        CASE t = "80" -> 80 [] t = "8080" -> 8080 [] t = "22" -> 22
          [] t = "6379" -> 6379 [] t = "99999" -> 99999]

\* ParseResult.port raises ValueError: not all digits, or out of range
port_raises(parsed) ==
    /\ parsed.port # <<>>
    /\ \/ Len(parsed.port) # 1
       \/ parsed.port[1] \notin DOMAIN PortDigits
       \/ PortDigits[parsed.port[1]] \notin 0..65535

(***************************************************************************)
(* ipaddress: addresses and networks.  An address is [v, w]: the version   *)
(* and its octets (v4) or 16-bit groups (v6).                              *)
(***************************************************************************)
V4(a, b, c, d) == [v |-> 4, w |-> <<a, b, c, d>>]
V6(a, b, c, d, e, f, g, h) == [v |-> 6, w |-> <<a, b, c, d, e, f, g, h>>]

\* ipaddress.ip_address(text) for the address texts of the model
IPTable ==
    [t \in {"169.254.169.254", "169.254.170.2", "127.0.0.1", "10.0.0.5",
            "172.16.0.1", "172.31.255.255", "172.32.0.1", "192.168.1.1",
            "8.8.8.8", "93.184.216.34", "100.64.0.1", "100.128.0.1",
            "224.0.0.1", "255.255.255.255", "0.0.0.0", "192.0.0.1",
            "192.0.2.1", "198.51.100.7", "203.0.113.9",
            "::1", "fd00:ec2::254", "fd12::1", "fe80::1", "2001:4860::8888",
            "::ffff:127.0.0.1"} |->
        CASE t = "169.254.169.254" -> V4(169, 254, 169, 254)
          [] t = "169.254.170.2"   -> V4(169, 254, 170, 2)
          [] t = "127.0.0.1"       -> V4(127, 0, 0, 1)
          [] t = "10.0.0.5"        -> V4(10, 0, 0, 5)
          [] t = "172.16.0.1"      -> V4(172, 16, 0, 1)
          [] t = "172.31.255.255"  -> V4(172, 31, 255, 255)
          [] t = "172.32.0.1"      -> V4(172, 32, 0, 1)
          [] t = "192.168.1.1"     -> V4(192, 168, 1, 1)
          [] t = "8.8.8.8"         -> V4(8, 8, 8, 8)
          [] t = "93.184.216.34"   -> V4(93, 184, 216, 34)
          [] t = "100.64.0.1"      -> V4(100, 64, 0, 1)
          [] t = "100.128.0.1"     -> V4(100, 128, 0, 1)
          [] t = "224.0.0.1"       -> V4(224, 0, 0, 1)
          [] t = "255.255.255.255" -> V4(255, 255, 255, 255)
          [] t = "0.0.0.0"         -> V4(0, 0, 0, 0)
          [] t = "192.0.0.1"       -> V4(192, 0, 0, 1)
          [] t = "192.0.2.1"       -> V4(192, 0, 2, 1)
          [] t = "198.51.100.7"    -> V4(198, 51, 100, 7)
          [] t = "203.0.113.9"     -> V4(203, 0, 113, 9)
          [] t = "::1"             -> V6(0, 0, 0, 0, 0, 0, 0, 1)
          [] t = "fd00:ec2::254"   -> V6(64768, 3778, 0, 0, 0, 0, 0, 596)
          [] t = "fd12::1"         -> V6(64786, 0, 0, 0, 0, 0, 0, 1)
          [] t = "fe80::1"         -> V6(65152, 0, 0, 0, 0, 0, 0, 1)
          [] t = "2001:4860::8888" -> V6(8193, 18528, 0, 0, 0, 0, 0, 34952)
          [] t = "::ffff:127.0.0.1" -> V6(0, 0, 0, 0, 0, 65535, 32512, 1)]

\* does ipaddress.ip_address(text) succeed (no ValueError)?
is_ip_literal(text) == Len(text) = 1 /\ text[1] \in DOMAIN IPTable

Net(addr, plen) == [v |-> addr.v, base |-> addr.w, plen |-> plen]

BLOCKED_IP_RANGES == <<
    Net(V4(10, 0, 0, 0), 8),
    Net(V4(172, 16, 0, 0), 12),
    Net(V4(192, 168, 0, 0), 16),
    Net(V4(127, 0, 0, 0), 8),
    Net(V4(169, 254, 0, 0), 16),
    Net(V6(0, 0, 0, 0, 0, 0, 0, 1), 128),
    Net(V6(64512, 0, 0, 0, 0, 0, 0, 0), 7),
    Net(V6(65152, 0, 0, 0, 0, 0, 0, 0), 10),
    Net(V4(0, 0, 0, 0), 8),
    Net(V4(100, 64, 0, 0), 10),
    Net(V4(192, 0, 0, 0), 24),
    Net(V4(192, 0, 2, 0), 24),
    Net(V4(198, 51, 100, 0), 24),
    Net(V4(203, 0, 113, 0), 24),
    Net(V4(224, 0, 0, 0), 4),
    Net(V4(240, 0, 0, 0), 4) >>

BLOCKED_HOSTNAMES == {
    <<"localhost">>, <<"localhost.localdomain">>, <<"127.0.0.1">>,
    <<"0.0.0.0">>, <<"::1">>, <<"metadata.google.internal">>,
    <<"metadata.google.com">>, <<"instance-data">> }

CLOUD_METADATA_IPS == { "169.254.169.254", "169.254.170.2", "fd00:ec2::254" }

Pow2(n) == 2 ^ n

\* `ip in network`: same version and the first plen bits agree
InNetwork(ip, net) ==
    /\ ip.v = net.v
    /\ LET width == IF ip.v = 4 THEN 8 ELSE 16
       IN  \A i \in DOMAIN ip.w :
              LET left == net.plen - width * (i - 1)
                  bits == IF left < 0 THEN 0
                          ELSE IF left > width THEN width ELSE left
              IN  ip.w[i] \div Pow2(width - bits)
                    = net.base[i] \div Pow2(width - bits)

is_ip_blocked(ip_str) ==
    IF ip_str \in DOMAIN IPTable
    THEN \/ \E k \in DOMAIN BLOCKED_IP_RANGES :
               InNetwork(IPTable[ip_str], BLOCKED_IP_RANGES[k])
         \/ ip_str \in CLOUD_METADATA_IPS
    ELSE FALSE   \* ValueError: not an IP, allow

(***************************************************************************)
(* validate_url.  `answer` is what socket.gethostbyname gives for the      *)
(* host if it is asked: an address text, None (gaierror) or "raise" (any   *)
(* other exception, e.g. UnicodeError for an over-long label).             *)
(***************************************************************************)
Fail(reason) == [ok |-> FALSE, reason |-> reason]
Pass == [ok |-> TRUE, reason |-> None]

\* a gate that looks at the scheme and the host name's presence only
validate_scheme_only(url, allow_internal, answer) ==
    IF urlparse(url).scheme \notin {"http", "https"}
    THEN Fail("Invalid URL scheme")
    ELSE IF urlparse(url).hostname = <<>> THEN Fail("URL must have a hostname")
    ELSE Pass

\* validate_url after `parsed = urlparse(url)`
validate_parsed(parsed, allow_internal, answer) ==
    LET hostname == parsed.hostname
    IN  IF parsed.scheme \notin {"http", "https"} THEN Fail("Invalid URL scheme")
        ELSE IF hostname = <<>> THEN Fail("URL must have a hostname")
        ELSE IF Lower(hostname) \in BLOCKED_HOSTNAMES THEN Fail("Blocked hostname")
        ELSE IF is_ip_literal(hostname) /\ ~allow_internal
                /\ is_ip_blocked(hostname[1])
             THEN Fail("Access to internal/private IP addresses is not allowed")
        ELSE IF ~is_ip_literal(hostname) /\ answer = "raise"
             THEN Fail("URL validation error")
        ELSE IF ~is_ip_literal(hostname) /\ answer # None /\ ~allow_internal
                /\ is_ip_blocked(answer)
             THEN Fail("Hostname resolves to blocked IP")
        ELSE IF port_raises(parsed) THEN Fail("URL validation error")
        ELSE Pass

validate_url(url, allow_internal, answer) ==
    validate_parsed(urlparse(url), allow_internal, answer)

(***************************************************************************)
(* fnmatch.fnmatch on token strings: "*" matches any run of tokens, every  *)
(* other pattern token matches itself.                                     *)
(***************************************************************************)
RECURSIVE fnmatch(_, _)
fnmatch(name, pat) ==
    IF pat = <<>> THEN name = <<>>
    ELSE IF Head(pat) = "*"
         THEN \/ fnmatch(name, Tail(pat))
              \/ name # <<>> /\ fnmatch(Tail(name), pat)
    ELSE /\ name # <<>>
         /\ Head(name) = Head(pat)
         /\ fnmatch(Tail(name), Tail(pat))

\* the include patterns asked first
should_crawl_url_include_first(url, include_patterns, exclude_patterns) ==
    IF \E i \in DOMAIN include_patterns : fnmatch(url, include_patterns[i])
    THEN TRUE
    ELSE /\ include_patterns = <<>>
         /\ ~\E i \in DOMAIN exclude_patterns : fnmatch(url, exclude_patterns[i])

should_crawl_url(url, include_patterns, exclude_patterns) ==
    IF \E i \in DOMAIN exclude_patterns : fnmatch(url, exclude_patterns[i])
    THEN FALSE
    ELSE IF include_patterns # <<>>
         THEN \E i \in DOMAIN include_patterns : fnmatch(url, include_patterns[i])
    ELSE TRUE

(***************************************************************************)
(* Page text is a sequence of chunks: "ws" and "ws10" are 1 and 10         *)
(* whitespace characters, "text10" and "text40" are runs of 10 and 40      *)
(* other characters, and a challenge phrase is a chunk of its own.         *)
(***************************************************************************)
JUNK_CONTENT_PATTERNS == <<
    "Enable JavaScript and cookies to continue",
    "Just a moment...",
    "Checking your browser",
    "Verifying you are human",
    "needs to review the security of your connection",
    "Please enable cookies",
    "Please turn JavaScript on",
    "Access denied",
    "Error 1005",
    "Error 1006",
    "Error 1015",
    "Attention Required! | Cloudflare",
    "Ray ID:" >>

MIN_CONTENT_LENGTH == 50

CLOUDFLARE_INDICATORS == <<
    "Enable JavaScript and cookies to continue",
    "Just a moment...",
    "Checking your browser",
    "Verifying you are human",
    "needs to review the security of your connection",
    "Please enable cookies",
    "Please turn JavaScript on",
    "Attention Required! | Cloudflare",
    "cf-browser-verification",
    "cf_clearance",
    "_cf_bm" >>

\* len() of one chunk, in characters
ChunkLen(c) ==
    CASE c = "ws"     -> 1
      [] c = "ws10"   -> 10
      [] c = "text10" -> 10
      [] c = "text40" -> 40
      [] c \in {"Just a moment...", "JUST A MOMENT..."} -> 16
      [] c = "Access denied" -> 13
      [] OTHER -> 20

RECURSIVE len(_)
len(content) ==
    IF content = <<>> THEN 0 ELSE ChunkLen(Head(content)) + len(Tail(content))

isspace(c) == c \in {"ws", "ws10"}

\* str.strip()
RECURSIVE lstrip(_)
lstrip(content) ==
    IF content # <<>> /\ isspace(Head(content)) THEN lstrip(Tail(content))
    ELSE content

RECURSIVE rstrip(_)
rstrip(content) ==
    IF content # <<>> /\ isspace(content[Len(content)])
    THEN rstrip(SubSeq(content, 1, Len(content) - 1))
    ELSE content

strip(content) == rstrip(lstrip(content))

\* `pattern.lower() in content.lower()`
contains_lower(content, pattern) ==
    \E i \in DOMAIN content : LowerTok(content[i]) = LowerTok(pattern)

\* dict.get(key, "") on a scraped-data dictionary
get(data, key) == IF key \in DOMAIN data THEN data[key] ELSE <<>>

\* every page counted as valid
always_valid(data) == [valid |-> TRUE, reason |-> ""]

is_valid_content(data) ==
    LET content == IF get(data, "markdown") # <<>> THEN get(data, "markdown")
                   ELSE get(data, "text")
    IN  IF \E i \in DOMAIN JUNK_CONTENT_PATTERNS :
               contains_lower(content, JUNK_CONTENT_PATTERNS[i])
        THEN [valid |-> FALSE, reason |-> "Bot challenge detected"]
        ELSE IF len(strip(content)) < MIN_CONTENT_LENGTH
             THEN [valid |-> FALSE, reason |-> "Content too short"]
        ELSE [valid |-> TRUE, reason |-> ""]

is_cloudflare_challenge(content) ==
    \E i \in DOMAIN CLOUDFLARE_INDICATORS :
        contains_lower(content, CLOUDFLARE_INDICATORS[i])

\* is_document_url: by content type first, then by the path's extension
is_document_url(url, content_type) ==
    \/ content_type \in {"application/pdf", "application/msword",
          "application/vnd.openxmlformats-officedocument.wordprocessingml.document"}
    \/ LET path == Lower(urlparse(url).path)
       IN  path # <<>> /\ path[Len(path)] \in {".pdf", ".docx", ".doc"}

(***************************************************************************)
(* ProxyPool (app/core/proxy.py).  A pool is                               *)
(*   [proxies, current_index, rotation_strategy]                           *)
(* (with no proxies when none is configured) and a ProxyInfo is            *)
(*   [server, success_count, failure_count, last_used, cooldown_until].    *)
(* current_index counts from 0 as in the code; proxies[i+1] is _proxies[i].*)
(***************************************************************************)
max_failures == 3
cooldown_seconds == 300

ProxyInfo(server) ==
    [server |-> server, success_count |-> 0, failure_count |-> 0,
     last_used |-> NoTime, cooldown_until |-> NoTime]

\* a health test that ignores the cooldown
always_healthy(p, t) == TRUE

is_healthy(p, t) == ~(p.cooldown_until # NoTime /\ t < p.cooldown_until)

\* a deployment without proxies (get_proxy_pool() is None) is the empty pool
has_proxies(pp) == Len(pp.proxies) > 0

\* the last proxy of the list with the greatest key
latest(proxies) ==
    CHOOSE i \in DOMAIN proxies :
       /\ \A j \in DOMAIN proxies :
             proxies[i].cooldown_until >= proxies[j].cooldown_until
       /\ \A j \in (i + 1)..Len(proxies) :
             proxies[j].cooldown_until < proxies[i].cooldown_until

\* min(self._proxies, key=lambda p: p.cooldown_until or datetime.min):
\* the first proxy of the list with the least key
earliest(proxies) ==
    LET key(i) == proxies[i].cooldown_until
    IN  CHOOSE i \in DOMAIN proxies :
           /\ \A j \in DOMAIN proxies : key(i) <= key(j)
           /\ \A j \in 1..(i - 1) : key(j) > key(i)

\* a rotation that starts every search at the head of the list
get_proxy_from_first(pp, t) ==
    LET healthy == { j \in DOMAIN pp.proxies : is_healthy(pp.proxies[j], t) }
    IN  IF healthy = {} THEN { [idx |-> earliest(pp.proxies), pool |-> pp] }
        ELSE { [idx  |-> j,
                pool |-> [pp EXCEPT !.proxies[j].last_used = t]] :
                 j \in { h \in healthy : \A g \in healthy : h <= g } }

\* get_proxy: the set of possible [idx, pool] results (idx = 0: None).
\* round_robin probes current_index, current_index+1, ... and stops at the
\* first healthy proxy; random draws up to len(proxies) times, so it returns
\* any healthy proxy, or falls through when every draw was unhealthy.
get_proxy(pp, t) ==
    LET n == Len(pp.proxies)
        used(i) == [pp EXCEPT !.proxies[i].last_used = t]
    IN  IF n = 0 THEN { [idx |-> 0, pool |-> pp] }
        ELSE IF pp.rotation_strategy = "random"
        THEN { [idx |-> i, pool |-> used(i)] :
                   i \in { j \in 1..n : is_healthy(pp.proxies[j], t) } }
             \cup
             { [idx |-> earliest(pp.proxies), pool |-> pp] :
                   x \in { j \in 1..n : ~is_healthy(pp.proxies[j], t) } }
        ELSE LET probe(k) == ((pp.current_index + k) % n) + 1
                 hits == { k \in 0..(n - 1) : is_healthy(pp.proxies[probe(k)], t) }
             IN  IF hits # {}
                 THEN LET k == CHOOSE h \in hits : \A g \in hits : h <= g
                      IN  { [idx  |-> probe(k),
                             pool |-> [used(probe(k)) EXCEPT
                                 !.current_index = (pp.current_index + k + 1) % n]] }
                 ELSE { [idx |-> earliest(pp.proxies), pool |-> pp] }

\* the first record whose server matches, or 0
find_server(pp, server) ==
    IF \E i \in DOMAIN pp.proxies : pp.proxies[i].server = server
    THEN CHOOSE i \in DOMAIN pp.proxies :
            /\ pp.proxies[i].server = server
            /\ \A j \in 1..(i - 1) : pp.proxies[j].server # server
    ELSE 0

\* a report that also takes the proxy out of its cooldown
report_success_recovers(pp, server) ==
    LET i == find_server(pp, server)
    IN  IF i = 0 THEN pp
        ELSE [pp EXCEPT !.proxies[i].success_count = @ + 1,
                        !.proxies[i].failure_count = 0,
                        !.proxies[i].cooldown_until = NoTime]

report_success(pp, server) ==
    LET i == find_server(pp, server)
    IN  IF i = 0 THEN pp
        ELSE [pp EXCEPT !.proxies[i].success_count = @ + 1]

\* a report that starts the cooldown only at the failure that reaches the
\* threshold
report_failure_at_threshold(pp, server, t) ==
    LET i == find_server(pp, server)
    IN  IF i = 0 THEN pp
        ELSE LET count == pp.proxies[i].failure_count + 1
             IN  [pp EXCEPT !.proxies[i].failure_count = count,
                            !.proxies[i].cooldown_until =
                                IF count = max_failures
                                THEN t + cooldown_seconds ELSE @]

\* a report that starts counting afresh once the cooldown is over
report_failure_after_recovery(pp, server, t) ==
    LET i == find_server(pp, server)
    IN  IF i = 0 THEN pp
        ELSE LET recovered == /\ pp.proxies[i].cooldown_until # NoTime
                              /\ t >= pp.proxies[i].cooldown_until
                 count == IF recovered THEN 1
                          ELSE pp.proxies[i].failure_count + 1
             IN  [pp EXCEPT !.proxies[i].failure_count = count,
                            !.proxies[i].cooldown_until =
                                IF count >= max_failures
                                THEN t + cooldown_seconds
                                ELSE IF recovered THEN NoTime ELSE @]

report_failure(pp, server, t) ==
    LET i == find_server(pp, server)
    IN  IF i = 0 THEN pp
        ELSE LET count == pp.proxies[i].failure_count + 1
             IN  [pp EXCEPT !.proxies[i].failure_count = count,
                            !.proxies[i].cooldown_until =
                                IF count >= max_failures
                                THEN t + cooldown_seconds ELSE @]

(***************************************************************************)
(* BrowserPool (app/core/browser.py).  The pool is                         *)
(*   [initialized, contexts, created, closed]                              *)
(* contexts is the free stack (top last); contexts are numbered in the     *)
(* order of their construction, 1..created.                                *)
(***************************************************************************)
pool_size == 5

\* an event of an operation; url is <<>> for an event without one
Ev(ev, url) == [ev |-> ev, url |-> url]

\* BrowserPool.initialize
initialize(bp) ==
    IF bp.initialized THEN bp ELSE [bp EXCEPT !.initialized = TRUE]

\* an acquisition that constructs a context whatever the free stack holds
acquire_new(bp, pp, use_proxy, extra_headers, pick) ==
    [bp |-> [bp EXCEPT !.initialized = TRUE, !.created = @ + 1], pp |-> pp,
     context |-> bp.created + 1, proxy |-> 0,
     ephemeral |-> extra_headers # None,
     log |-> <<Ev("new_context", <<>>)>>]

\* an acquisition that hands out the top of the free stack and leaves it
\* on the stack
acquire_peek(bp, pp, use_proxy, extra_headers, pick) ==
    LET bp1   == initialize(bp)
        proxy == IF use_proxy /\ has_proxies(pp) THEN pick.idx ELSE 0
        pp1   == IF use_proxy /\ has_proxies(pp) THEN pick.pool ELSE pp
    IN  IF proxy = 0 /\ extra_headers = None /\ bp1.contexts # <<>>
        THEN [bp |-> bp1, pp |-> pp1,
              context |-> bp1.contexts[Len(bp1.contexts)],
              proxy |-> 0, ephemeral |-> FALSE,
              log |-> <<Ev("reuse_context", <<>>)>>]
        ELSE [bp |-> [bp1 EXCEPT !.created = @ + 1], pp |-> pp1,
              context |-> bp1.created + 1, proxy |-> proxy,
              ephemeral |-> proxy # 0 \/ extra_headers # None,
              log |-> <<Ev("new_context", <<>>)>>]

\* get_context up to the yield, with `pick` the result of get_proxy:
\* [bp, pp, context, proxy (index or 0), ephemeral, log]
acquire(bp, pp, use_proxy, extra_headers, pick) ==
    LET bp1   == initialize(bp)
        proxy == IF use_proxy /\ has_proxies(pp) THEN pick.idx ELSE 0
        pp1   == IF use_proxy /\ has_proxies(pp) THEN pick.pool ELSE pp
        log0  == IF use_proxy /\ has_proxies(pp)
                 THEN <<Ev("get_proxy", <<>>)>> ELSE <<>>
    IN  IF proxy # 0 \/ extra_headers # None
        THEN [bp |-> [bp1 EXCEPT !.created = @ + 1], pp |-> pp1,
              context |-> bp1.created + 1, proxy |-> proxy, ephemeral |-> TRUE,
              log |-> log0 \o <<Ev("new_context", <<>>)>>]
        ELSE IF bp1.contexts # <<>>
        THEN [bp |-> [bp1 EXCEPT !.contexts = SubSeq(@, 1, Len(@) - 1)],
              pp |-> pp1, context |-> bp1.contexts[Len(bp1.contexts)],
              proxy |-> 0, ephemeral |-> FALSE,
              log |-> log0 \o <<Ev("reuse_context", <<>>)>>]
        ELSE [bp |-> [bp1 EXCEPT !.created = @ + 1], pp |-> pp1,
              context |-> bp1.created + 1, proxy |-> 0, ephemeral |-> FALSE,
              log |-> log0 \o <<Ev("new_context", <<>>)>>]

\* a release that puts every context on the free stack while it has room
release_to_stack(bp, pp, held, raised, cleared, t) ==
    [bp  |-> IF Len(bp.contexts) < pool_size
             THEN [bp EXCEPT !.contexts = Append(@, held.context)]
             ELSE [bp EXCEPT !.closed = @ \cup {held.context}],
     pp  |-> pp,
     log |-> <<Ev("return_context", <<>>)>>]

\* a release that closes a poolable context whose cookies it could not
\* clear
release_if_cleared(bp, pp, held, raised, cleared, t) ==
    LET pp1 == IF held.proxy = 0 THEN pp
               ELSE IF raised
                    THEN report_failure(pp, pp.proxies[held.proxy].server, t)
                    ELSE report_success(pp, pp.proxies[held.proxy].server)
        push == ~held.ephemeral /\ Len(bp.contexts) < pool_size /\ cleared
    IN  [bp  |-> IF push THEN [bp EXCEPT !.contexts = Append(@, held.context)]
                 ELSE [bp EXCEPT !.closed = @ \cup {held.context}],
         pp  |-> pp1,
         log |-> (IF held.proxy = 0 THEN <<>>
                  ELSE <<Ev(IF raised THEN "report_failure" ELSE "report_success",
                            <<>>)>>)
                 \o (IF push
                     THEN <<Ev("clear_cookies", <<>>), Ev("return_context", <<>>)>>
                     ELSE IF held.ephemeral \/ Len(bp.contexts) >= pool_size
                     THEN <<Ev("close_context", <<>>)>>
                     ELSE <<Ev("clear_cookies_failed", <<>>),
                            Ev("close_context", <<>>)>>)]

\* a release that reports a failure only, and after the close
release_report_late(bp, pp, held, raised, cleared, t) ==
    LET pp1 == IF held.proxy # 0 /\ raised
               THEN report_failure(pp, pp.proxies[held.proxy].server, t)
               ELSE pp
        push == ~held.ephemeral /\ Len(bp.contexts) < pool_size
    IN  [bp  |-> IF push THEN [bp EXCEPT !.contexts = Append(@, held.context)]
                 ELSE [bp EXCEPT !.closed = @ \cup {held.context}],
         pp  |-> pp1,
         log |-> (IF push
                  THEN <<Ev(IF cleared THEN "clear_cookies"
                            ELSE "clear_cookies_failed", <<>>),
                         Ev("return_context", <<>>)>>
                  ELSE <<Ev("close_context", <<>>)>>)
                 \o (IF held.proxy # 0 /\ raised
                     THEN <<Ev("report_failure", <<>>)>> ELSE <<>>)]

\* get_context after the yield: report the outcome, then close or pool;
\* `cleared` tells whether clear_cookies succeeded (the fetch operations
\* take it to succeed)
release(bp, pp, held, raised, cleared, t) ==
    LET pp1 == IF held.proxy = 0 THEN pp
               ELSE IF raised
                    THEN report_failure(pp, pp.proxies[held.proxy].server, t)
                    ELSE report_success(pp, pp.proxies[held.proxy].server)
        bp1 == IF held.ephemeral
               THEN [bp EXCEPT !.closed = @ \cup {held.context}]
               ELSE IF Len(bp.contexts) < pool_size
               THEN [bp EXCEPT !.contexts = Append(@, held.context)]
               ELSE [bp EXCEPT !.closed = @ \cup {held.context}]
    IN  [bp |-> bp1, pp |-> pp1,
         log |-> (IF held.proxy = 0 THEN <<>>
                  ELSE <<Ev(IF raised THEN "report_failure" ELSE "report_success",
                            <<>>)>>)
                 \o (IF bp1.closed # bp.closed THEN <<Ev("close_context", <<>>)>>
                     ELSE <<Ev(IF cleared THEN "clear_cookies"
                               ELSE "clear_cookies_failed", <<>>),
                            Ev("return_context", <<>>)>>)]

\* the possible get_proxy results for an acquisition (a dummy when the pool
\* has no proxies and get_proxy is not called)
Picks(pp, t) ==
    IF has_proxies(pp) THEN get_proxy(pp, t) ELSE { [idx |-> 0, pool |-> pp] }

(***************************************************************************)
(* scrape_url (app/core/scraper.py), run to completion.  `env` is what the *)
(* outside world answers during the call:                                  *)
(*   answer    gethostbyname for the gate's lookup                         *)
(*   head      the HEAD request: "fail", "html" or "pdf" (content type)    *)
(*   answer2   gethostbyname for download_document's second gate call     *)
(*   download  the document GET and parse: "ok", "http_error", "parse_error"*)
(*   nav       page.goto and the reads after it: "ok", "timeout", "error"  *)
(*   page      [html, markdown]: the page content and its markdown         *)
(*   links     the page's absolute links, without repetition               *)
(*   fs        FlareSolverr: "off" (not configured), "ok", "failed", "raise"*)
(*   fs_page   the page FlareSolverr returns                               *)
(*   pick      the result of get_proxy                                     *)
(* The result is [raised, data, log, bp, pp]: the exception (or None), the *)
(* returned dictionary, the events in order and the pools afterwards.      *)
(***************************************************************************)
\* a result whose browser pool has been started whatever happened
OutcomeStarted(raised, data, log, bp, pp) ==
    [raised |-> raised, data |-> data, log |-> log,
     bp |-> [bp EXCEPT !.initialized = TRUE], pp |-> pp]

Outcome(raised, data, log, bp, pp) ==
    [raised |-> raised, data |-> data, log |-> log, bp |-> bp, pp |-> pp]

NoData == [k \in {} |-> <<>>]

\* the dictionary built for a web page
page_data(formats, page, links) ==
    [k \in (formats \cap {"markdown", "html", "links", "metadata"}) |->
        CASE k = "markdown" -> page.markdown
          [] k = "html"     -> page.html
          [] k = "links"    -> links
          [] k = "metadata" -> <<"sourceURL">>]

\* the dictionary parse_document_url builds
document_data(formats, page) ==
    [k \in ({"document_type"} \cup (formats \cap {"markdown", "metadata"})
              \cup (IF formats \cap {"text", "html"} # {} THEN {"text"} ELSE {})) |->
        CASE k = "document_type" -> <<"pdf">>
          [] k = "markdown" -> page.markdown
          [] k = "text"     -> page.html
          [] k = "metadata" -> <<"sourceURL">>]

\* parse_document_url: download_document validates again, then GETs
parse_document_url(url, formats, env, log, bp, pp) ==
    LET log2 == log \o <<Ev("validate_pass", url), Ev("get", url)>>
    IN  IF ~validate_url(url, FALSE, env.answer2).ok
        THEN Outcome("DocumentError", NoData,
                     log \o <<Ev("validate_fail", url)>>, bp, pp)
        ELSE IF env.download = "http_error"
             THEN Outcome("HTTPStatusError", NoData, log2, bp, pp)
        ELSE IF env.download = "parse_error"
             THEN Outcome("DocumentError", NoData, log2, bp, pp)
        ELSE Outcome(None, document_data(formats, env.page), log2, bp, pp)

\* the body of `async with browser_pool.get_page(...)` and the release
\* of the context `held` on the way out
page_body(url, formats, env, log, held, t) ==
    LET log1  == log \o held.log \o <<Ev("goto", url)>>
        cf    == is_cloudflare_challenge(env.page.html)
        log2  == log1 \o (IF cf /\ env.fs # "off"
                          THEN <<Ev("flaresolverr", url)>> ELSE <<>>)
        page  == IF cf /\ env.fs = "ok" THEN env.fs_page ELSE env.page
        bad   == release(held.bp, held.pp, held, TRUE, TRUE, t)
        good  == release(held.bp, held.pp, held, FALSE, TRUE, t)
    IN  IF env.nav = "timeout"
        THEN Outcome("Timeout while scraping", NoData, log1 \o bad.log, bad.bp, bad.pp)
        ELSE IF env.nav = "error"
        THEN Outcome("Exception", NoData, log1 \o bad.log, bad.bp, bad.pp)
        ELSE Outcome(None, page_data(formats, page, env.links),
                     log2 \o good.log, good.bp, good.pp)

\* the browser part of scrape_url
scrape_page(url, formats, headers, env, log, bp, pp, t) ==
    page_body(url, formats, env, log,
              acquire(bp, pp, TRUE, headers, env.pick), t)

\* is_document_url, then _check_content_type: a HEAD request unless the
\* extension decides; a failed HEAD counts as "not a document"
detect_document(url, head, log) ==
    IF is_document_url(url, None) THEN [is_doc |-> TRUE, log |-> log]
    ELSE [is_doc |-> head = "pdf" /\ is_document_url(url, "application/pdf"),
          log    |-> log \o <<Ev("head", url)>>]

\* scrape_url once the gate has passed the URL
scrape_checked(url, formats, headers, env, ct, bp, pp, t) ==
    IF ct.is_doc THEN parse_document_url(url, formats, env, ct.log, bp, pp)
    ELSE scrape_page(url, formats, headers, env, ct.log, bp, pp, t)

scrape_url(url, formats, headers, env, bp, pp, t) ==
    IF ~validate_url(url, FALSE, env.answer).ok
    THEN Outcome("SSRFBlockedError", NoData, <<Ev("validate_fail", url)>>, bp, pp)
    ELSE scrape_checked(url, formats, headers, env,
             detect_document(url, env.head, <<Ev("validate_pass", url)>>),
             bp, pp, t)

(***************************************************************************)
(* The job store row (app/db/models.py CrawlJob) and update_job_status.    *)
(***************************************************************************)
NewJob ==
    [status |-> "pending", total |-> 0, completed |-> 0, failed |-> 0,
     results |-> <<>>, error |-> None, completed_at |-> NoTime]

\* an update of the counters, results and timestamp that leaves the status
update_job_counters(j, status, total, completed, res, completed_at) ==
    [j EXCEPT !.total = IF total > 0 THEN total ELSE @,
              !.completed = IF completed > 0 THEN completed ELSE @,
              !.results = IF res # <<>> THEN res ELSE @,
              !.completed_at = IF completed_at # NoTime THEN completed_at ELSE @]

\* `res` is <<>> for None and <<list>> for a list; the row stores it alike
update_job_status(j, status, total, completed, res, completed_at) ==
    [j EXCEPT !.status = status,
              !.total = IF total > 0 THEN total ELSE @,
              !.completed = IF completed > 0 THEN completed ELSE @,
              !.results = IF res # <<>> THEN res ELSE @,
              !.completed_at = IF completed_at # NoTime THEN completed_at ELSE @]

\* a handler that leaves the row as it is
failure_ignored(j) == j

\* the except branch of the loop body: job.failed += 1; db.commit()
count_failure(j) == [j EXCEPT !.failed = @ + 1]

(***************************************************************************)
(* The inputs of the model: URLs, DNS, pages, patterns, configurations.    *)
(***************************************************************************)
MaxLimit == 2      \* crawl limits 1..MaxLimit
MaxDepth == 2      \* crawl depths 1..MaxDepth
MaxLinks == 2      \* links per page
MaxBatch == 3      \* URLs per batch

U_start  == <<"http", "://", "site", "/", "docs", "/">>
U_docs   == <<"http", "://", "site", "/", "docs", "/", "y">>
U_admin  == <<"http", "://", "site", "/", "admin", "/", "docs", "/", "x">>
U_about  == <<"http", "://", "site", "/", "about">>
U_cousin == <<"http", "://", "site", ".internal", "/", "docs", "/">>
U_other  == <<"http", "://", "other.org", "/", "docs", "/">>
U_local  == <<"http", "://", "localhost", ":", "8080", "/">>
U_meta   == <<"http", "://", "169.254.169.254", "/", "latest", "/", "meta-data">>
U_pdf    == <<"https", "://", "example.com", "/", "report", ".pdf">>
U_public == <<"https", "://", "example.com">>

\* the URLs pages link to
LinkUrls == {U_start, U_docs, U_admin, U_about, U_cousin, U_other}

\* what socket.gethostbyname may answer for a host name
DnsTable ==
    [h \in {<<"site">>, <<"site", ".internal">>, <<"other.org">>,
            <<"example.com">>, <<"localhost">>, <<"intranet">>,
            <<"rebind.test">>, <<"nxdomain.test">>, <<"bad..label">>} |->
        CASE h = <<"site">>              -> {"93.184.216.34"}
          [] h = <<"site", ".internal">> -> {"10.0.0.5"}
          [] h = <<"other.org">>         -> {"8.8.8.8"}
          [] h = <<"example.com">>       -> {"93.184.216.34"}
          [] h = <<"localhost">>         -> {"127.0.0.1"}
          [] h = <<"intranet">>          -> {"192.168.1.1"}
          [] h = <<"rebind.test">>       -> {"8.8.8.8", "127.0.0.1"}
          [] h = <<"nxdomain.test">>     -> {None}
          [] h = <<"bad..label">>        -> {"raise"}]

Resolve(url) ==
    LET h == urlparse(url).hostname
    IN  IF h \in DOMAIN DnsTable THEN DnsTable[h] ELSE {None}

PageValid     == [html |-> <<"text40", "text10">>, markdown |-> <<"text40", "text10">>]
PageShort     == [html |-> <<"text40">>, markdown |-> <<"ws10", "text40", "ws">>]
PageChallenge == [html |-> <<"Just a moment...">>, markdown |-> <<"Just a moment...">>]
PageDenied    == [html |-> <<"text40", "text40">>,
                  markdown |-> <<"text40", "Access denied", "text40">>]
PageUpper     == [html |-> <<"text40", "JUST A MOMENT...", "text40">>,
                  markdown |-> <<"text40", "JUST A MOMENT...", "text40">>]

Pages == {PageValid, PageShort, PageChallenge, PageDenied, PageUpper}
CrawlPages == {PageValid, PageShort, PageChallenge}

\* sequences of at most n distinct elements of S
RECURSIVE DistinctSeqs(_, _)
DistinctSeqs(S, n) ==
    IF n = 0 THEN {<<>>}
    ELSE LET shorter == DistinctSeqs(S, n - 1)
         IN  shorter \cup
             UNION { { Append(q, x) : x \in S \ Range(q) } : q \in shorter }

LinkSeqs == DistinctSeqs(LinkUrls, MaxLinks)

P_admin == <<"*", "/", "admin", "/", "*">>
P_docs  == <<"*", "/", "docs", "/", "*">>

\* [include_patterns, exclude_patterns]
PatternConfigs == {
    [include_patterns |-> <<>>,       exclude_patterns |-> <<>>],
    [include_patterns |-> <<P_docs>>, exclude_patterns |-> <<P_admin>>],
    [include_patterns |-> <<>>,       exclude_patterns |-> <<P_docs>>] }

FormatConfigs == { {"markdown", "metadata"}, {"markdown", "links"} }

CrawlConfigs ==
    { [limit |-> l, depth |-> d, formats |-> f, headers |-> None,
       include_patterns |-> p.include_patterns,
       exclude_patterns |-> p.exclude_patterns] :
        l \in 1..MaxLimit, d \in 1..MaxDepth, f \in FormatConfigs,
        p \in PatternConfigs }

\* the proxy pools a deployment may configure
NoProxies ==
    [proxies |-> <<>>, current_index |-> 0, rotation_strategy |-> "round_robin"]

ProxyConfigs == {
    NoProxies,
    [proxies |-> <<ProxyInfo("http://p1:3128"), ProxyInfo("http://p2:3128")>>,
     current_index |-> 0, rotation_strategy |-> "round_robin"] }

NewBrowserPool ==
    [initialized |-> FALSE, contexts |-> <<>>, created |-> 0, closed |-> {}]

\* the answers of the outside world to one scrape_url call for a web page;
\* a failed navigation has no page, and links are read only when asked for
Env(a, nav, pg, ls, pk) ==
    [answer |-> a, head |-> "html", answer2 |-> a, download |-> "ok",
     nav |-> nav, page |-> pg, links |-> ls, fs |-> "off",
     fs_page |-> PageValid, pick |-> pk]

NavOutcomes == {"ok", "error"}

EnvOk(formats, nav, pg, ls) ==
    /\ nav # "ok" => pg = PageValid /\ ls = <<>>
    /\ "links" \notin formats => ls = <<>>

(***************************************************************************)
(* _crawl_async (app/core/crawler.py).                                     *)
(***************************************************************************)
\* f"{parsed_url.scheme}://{parsed_url.netloc}"
base_domain(start_url) ==
    <<urlparse(start_url).scheme, "://">> \o urlparse(start_url).netloc

\* the same links, entered at the depth of the page they were found on
new_entries_same_depth(links, base, seen, d) ==
    LET keep(l) == startswith(l, base) /\ l \notin seen
        sel     == SelectSeq(links, keep)
    IN  [i \in 1..Len(sel) |-> <<sel[i], d - 1>>]

\* the links of a page that the loop appends to to_visit, in order
RECURSIVE new_entries(_, _, _, _)
new_entries(links, base, seen, d) ==
    IF links = <<>> THEN <<>>
    ELSE (IF startswith(Head(links), base) /\ Head(links) \notin seen
          THEN << <<Head(links), d>> >> ELSE <<>>)
         \o new_entries(Tail(links), base, seen, d)

\* a loop that goes on while the frontier has entries
frontier_not_empty == to_visit # <<>>

\* the URL of the newest entry of the frontier
newest_url == to_visit[Len(to_visit)][1]

\* the loop condition of `while to_visit and len(results) < limit`
loop_continues == to_visit # <<>> /\ Len(results) < config.limit

\* the depth of the newest entry of the frontier
newest_depth == to_visit[Len(to_visit)][2]

current_url   == Head(to_visit)[1]
current_depth == Head(to_visit)[2]

\* the `continue` tests without the one on the visited set
skipped_unless_visited ==
    \/ current_depth > config.depth
    \/ ~should_crawl_url(current_url, config.include_patterns,
                         config.exclude_patterns)

\* the `continue` tests with the pattern test left out for the seed entry
skipped_after_start ==
    \/ current_url \in visited
    \/ current_depth > config.depth
    \/ /\ current_depth > 0
       /\ ~should_crawl_url(current_url, config.include_patterns,
                            config.exclude_patterns)

\* the three `continue` tests at the top of the loop body
skipped ==
    \/ current_url \in visited
    \/ current_depth > config.depth
    \/ ~should_crawl_url(current_url, config.include_patterns,
                         config.exclude_patterns)

InitCrawl ==
    /\ mode = "crawl"
    /\ pc = "start"
    /\ op_url \in {U_start, U_local}
    /\ config \in CrawlConfigs
    /\ visited = {}
    /\ to_visit = << <<op_url, 0>> >>
    /\ results = <<>>
    /\ job = NewJob
    /\ fetch_log = <<>>
    /\ oplog = <<>>
    /\ verdict = [ok |-> TRUE, answer |-> None]
    /\ batch_urls = <<>>
    /\ batch_state = <<>>
    /\ batch_results = <<>>
    /\ semaphore = 0
    /\ browser_pool = NewBrowserPool
    /\ in_flight = <<>>
    /\ proxy_pool \in ProxyConfigs
    /\ now = 0

\* lines 122-126: open the session, mark the job running
CrawlStart ==
    /\ mode = "crawl" /\ pc = "start"
    /\ job' = update_job_status(job, "running", 1, 0, <<>>, NoTime)
    /\ pc' = "loop"
    /\ UNCHANGED <<mode, op_url, config, visited, to_visit, results, fetch_log,
                   oplog, verdict, batch_vars, pool_vars, now>>

\* one iteration that ends in a `continue` before the fetch
CrawlSkip ==
    /\ mode = "crawl" /\ pc = "loop"
    /\ loop_continues
    /\ skipped
    /\ to_visit' = Tail(to_visit)
    /\ UNCHANGED <<mode, pc, op_url, config, visited, results, job, fetch_log,
                   oplog, verdict, batch_vars, pool_vars, now>>

\* the visited set left as it is
visited_kept(url) == visited

\* visited.add(current_url)
visited_add(url) == visited \cup {url}

\* the body of one iteration around the call of scrape_url, with `r` what
\* the call returned or raised: the values of the loop's variables
\* afterwards, the call's record for fetch_log, and the call's events and
\* pools
after_scrape(r) ==
    LET seen  == visited_add(current_url)
        valid == r.raised = None /\ is_valid_content(r.data).valid
        res   == IF valid
                 THEN Append(results, [url |-> current_url,
                                       depth |-> current_depth])
                 ELSE results
    IN  [visited  |-> seen,
         results  |-> res,
         job      |-> IF r.raised # None THEN count_failure(job)
                      ELSE IF valid
                      THEN update_job_status(job, "running",
                               Len(Tail(to_visit)) + Len(res), Len(res),
                               <<>>, NoTime)
                      ELSE job,
         to_visit |-> IF /\ r.raised = None
                         /\ current_depth < config.depth
                         /\ "links" \in DOMAIN r.data
                      THEN Tail(to_visit)
                           \o new_entries(r.data["links"], base_domain(op_url),
                                          seen, current_depth + 1)
                      ELSE Tail(to_visit),
         entry    |-> [url |-> current_url, depth |-> current_depth,
                       nres |-> Len(results), raised |-> r.raised,
                       valid |-> valid],
         log |-> r.log, bp |-> r.bp, pp |-> r.pp]

\* the body of one iteration from visited.add on, with `env` what the
\* outside world answers during scrape_url
crawl_iteration(env) ==
    after_scrape(scrape_url(current_url, config.formats, config.headers, env,
                            browser_pool, proxy_pool, now))

\* one iteration that fetches the page
CrawlFetch ==
    /\ mode = "crawl" /\ pc = "loop"
    /\ loop_continues
    /\ ~skipped
    /\ \E a \in Resolve(current_url), nav \in NavOutcomes, pg \in CrawlPages,
          ls \in LinkSeqs, pk \in Picks(proxy_pool, now) :
         /\ EnvOk(config.formats, nav, pg, ls)
         /\ \E it \in { crawl_iteration(Env(a, nav, pg, ls, pk)) } :
              /\ visited' = it.visited
              /\ results' = it.results
              /\ job' = it.job
              /\ to_visit' = it.to_visit
              /\ fetch_log' = Append(fetch_log, it.entry)
              /\ oplog' = it.log
              /\ verdict' = [ok |-> it.entry.raised # "SSRFBlockedError",
                             answer |-> a]
              /\ browser_pool' = it.bp
              /\ in_flight' = in_flight
              /\ proxy_pool' = it.pp
    /\ UNCHANGED <<mode, pc, op_url, config, batch_vars, now>>

\* lines 188-198: the loop has ended
CrawlFinish ==
    /\ mode = "crawl" /\ pc = "loop"
    /\ ~loop_continues
    /\ job' = update_job_status(job, "completed", Len(results), Len(results),
                                <<results>>, now)
    /\ pc' = "done"
    /\ UNCHANGED <<mode, op_url, config, visited, to_visit, results, fetch_log,
                   oplog, verdict, batch_vars, pool_vars, now>>

\* crawl_task (app/workers/tasks.py): an exception that leaves
\* _crawl_async is caught and becomes the task's return value
\* {"success": False, "error": ...}; the job row is not written.  The
\* statements outside the per-page try that can raise are the session and
\* the first job update (lines 123-126) and the last update (189-195).
CrawlAbort ==
    /\ mode = "crawl"
    /\ \/ pc = "start"
       \/ pc = "loop" /\ ~loop_continues
    /\ pc' = "aborted"
    /\ UNCHANGED <<mode, op_url, config, visited, to_visit, results, job,
                   fetch_log, oplog, verdict, batch_vars, pool_vars, now>>

NextCrawl == CrawlStart \/ CrawlSkip \/ CrawlFetch \/ CrawlFinish \/ CrawlAbort

(***************************************************************************)
(* _batch_scrape_async (app/core/scraper.py): one task per URL, each       *)
(* inside `async with semaphore`; gather returns the tasks' values in the  *)
(* order of the input.  batch_state[i] is the task of urls[i]:             *)
(*   [st, ret]  with st "waiting", "running" or "done" and ret its value.  *)
(***************************************************************************)
max_concurrent_requests == 10

U_rebind == <<"http", "://", "rebind.test", "/", "file", ".pdf">>

BatchUrlSet == {U_public, U_local, U_pdf}

RECURSIVE Seqs(_, _)
\* the sequences of 1..n elements of S
Seqs(S, n) ==
    IF n = 0 THEN {}
    ELSE Seqs(S, n - 1) \cup
         { Append(q, x) : q \in Seqs(S, n - 1) \cup {<<>>}, x \in S }

\* the task's config, with the deployment's max_concurrent_requests
\* setting: the default, or one below the batch's size
BatchConfigs ==
    { [limit |-> 1, depth |-> 1, formats |-> {"markdown"}, headers |-> None,
       include_patterns |-> <<>>, exclude_patterns |-> <<>>,
       max_concurrent_requests |-> c] :
          c \in {1, 2, max_concurrent_requests} }

\* the row start_batch_scrape stores
NewBatchJob(urls) == [NewJob EXCEPT !.total = Len(urls)]

\* a wrapper that lets the exception of scrape_url through to gather,
\* which raises it in place of the batch's list
propagated(url, r) == [url |-> <<>>, success |-> FALSE, error |-> r.raised]

\* scrape_with_semaphore's value: the record of a returned or raised fetch
scrape_record(url, r) ==
    IF r.raised = None
    THEN [url |-> url, success |-> TRUE, data |-> r.data]
    ELSE [url |-> url, success |-> FALSE, error |-> r.raised]

NoReturn == [url |-> <<>>, success |-> FALSE, error |-> None]

InitBatch ==
    /\ mode = "batch"
    /\ pc = "start"
    /\ op_url = <<>>
    /\ config \in BatchConfigs
    /\ visited = {}
    /\ to_visit = <<>>
    /\ results = <<>>
    /\ batch_urls \in Seqs(BatchUrlSet, MaxBatch)
    /\ job = NewBatchJob(batch_urls)
    /\ fetch_log = <<>>
    /\ oplog = <<>>
    /\ verdict = [ok |-> TRUE, answer |-> None]
    /\ batch_state = [i \in DOMAIN batch_urls |-> [st |-> "waiting", ret |-> NoReturn]]
    /\ batch_results = <<>>
    /\ semaphore = 0
    /\ browser_pool = NewBrowserPool
    /\ in_flight = <<>>
    /\ proxy_pool \in ProxyConfigs
    /\ now = 0

\* a semaphore that always has a permit
never_locked(taken, value) == FALSE

\* asyncio.Semaphore(value).locked() once `taken` permits are out
locked(taken, value) == taken >= value

\* how the navigation of a batch's fetch may end
BatchNavOutcomes == {"ok", "timeout", "error"}

\* `async with semaphore`: task i takes a permit
BatchEnter(i) ==
    /\ mode = "batch" /\ pc = "start"
    /\ batch_state[i].st = "waiting"
    /\ ~locked(semaphore, config.max_concurrent_requests)
    /\ semaphore' = semaphore + 1
    /\ batch_state' = [batch_state EXCEPT ![i].st = "running"]
    /\ UNCHANGED <<mode, pc, op_url, crawl_vars, oplog, verdict, batch_urls,
                   batch_results, pool_vars, now>>

\* the body of scrape_with_semaphore for task i, and the permit's return
BatchScrape(i) ==
    /\ mode = "batch" /\ pc = "start"
    /\ batch_state[i].st = "running"
    /\ \E a \in Resolve(batch_urls[i]), nav \in BatchNavOutcomes,
          pg \in CrawlPages, pk \in Picks(proxy_pool, now) :
         /\ EnvOk(config.formats, nav, pg, <<>>)
         /\ \E r \in { scrape_url(batch_urls[i], config.formats, None,
                                  Env(a, nav, pg, <<>>, pk),
                                  browser_pool, proxy_pool, now) } :
              /\ batch_state' = [batch_state EXCEPT ![i] =
                     [st  |-> "done",
                      ret |-> scrape_record(batch_urls[i], r)]]
              /\ fetch_log' = Append(fetch_log,
                     [url |-> batch_urls[i], depth |-> 0, nres |-> 0,
                      raised |-> r.raised, valid |-> FALSE])
              /\ oplog' = r.log
              /\ verdict' = [ok |-> r.raised # "SSRFBlockedError", answer |-> a]
              /\ browser_pool' = r.bp
              /\ in_flight' = in_flight
              /\ proxy_pool' = r.pp
    /\ semaphore' = semaphore - 1
    /\ UNCHANGED <<mode, pc, op_url, config, visited, to_visit, results, job,
                   batch_urls, batch_results, now>>

\* asyncio.gather: every task is done, the values in input order
BatchGather ==
    /\ mode = "batch" /\ pc = "start"
    /\ \A i \in DOMAIN batch_state : batch_state[i].st = "done"
    /\ batch_results' = [i \in DOMAIN batch_state |-> batch_state[i].ret]
    /\ pc' = "done"
    /\ UNCHANGED <<mode, op_url, crawl_vars, oplog, verdict, batch_urls,
                   batch_state, semaphore, pool_vars, now>>

NextBatch ==
    \/ \E i \in DOMAIN batch_state : BatchEnter(i)
    \/ \E i \in DOMAIN batch_state : BatchScrape(i)
    \/ BatchGather

(***************************************************************************)
(* POST /scrape (app/api/routes/scrape.py): one scrape_url call.           *)
(***************************************************************************)
ScrapeUrlSet == {U_public, U_pdf, U_rebind, U_local, U_meta, U_cousin}

ScrapeConfigs ==
    { [limit |-> 1, depth |-> 1, formats |-> f, headers |-> h,
       include_patterns |-> <<>>, exclude_patterns |-> <<>>] :
        f \in { {"markdown"}, {"markdown", "html", "links", "metadata"} },
        h \in { None, "Authorization" } }

\* what the network and the page may do during one scrape_url call
Way(download, nav, pg, fs) ==
    [download |-> download, nav |-> nav, page |-> pg, fs |-> fs]

Ways ==
    { Way("ok", "ok", pg, "off") : pg \in Pages }
    \cup { Way("ok", "ok", PageChallenge, fs) : fs \in {"ok", "failed", "raise"} }
    \cup { Way("ok", nav, PageValid, "off") : nav \in {"timeout", "error"} }
    \cup { Way(d, "ok", PageValid, "off") : d \in {"http_error", "parse_error"} }

InitOther(m, urls, configs) ==
    /\ mode = m
    /\ pc = "start"
    /\ op_url \in urls
    /\ config \in configs
    /\ visited = {}
    /\ to_visit = <<>>
    /\ results = <<>>
    /\ job = NewJob
    /\ fetch_log = <<>>
    /\ oplog = <<>>
    /\ verdict = [ok |-> TRUE, answer |-> None]
    /\ batch_urls = <<>>
    /\ batch_state = <<>>
    /\ batch_results = <<>>
    /\ semaphore = 0
    /\ browser_pool = NewBrowserPool
    /\ in_flight = <<>>
    /\ proxy_pool \in ProxyConfigs
    /\ now = 0

InitScrape == InitOther("scrape", ScrapeUrlSet, ScrapeConfigs)

ScrapeRun ==
    /\ mode = "scrape" /\ pc = "start"
    /\ \E a \in Resolve(op_url), a2 \in Resolve(op_url),
          head \in {"html", "pdf", "fail"}, w \in Ways,
          pk \in Picks(proxy_pool, now) :
         \E r \in { scrape_url(op_url, config.formats, config.headers,
                       [answer |-> a, head |-> head, answer2 |-> a2,
                        download |-> w.download, nav |-> w.nav,
                        page |-> w.page, links |-> <<U_docs>>, fs |-> w.fs,
                        fs_page |-> PageValid, pick |-> pk],
                       browser_pool, proxy_pool, now) } :
           /\ fetch_log' = Append(fetch_log,
                  [url |-> op_url, depth |-> 0, nres |-> 0,
                   raised |-> r.raised, valid |-> FALSE])
           /\ oplog' = r.log
           /\ verdict' = [ok |-> r.raised # "SSRFBlockedError", answer |-> a]
           /\ browser_pool' = r.bp
           /\ in_flight' = in_flight
           /\ proxy_pool' = r.pp
    /\ pc' = "done"
    /\ UNCHANGED <<mode, op_url, config, visited, to_visit, results, job,
                   batch_vars, now>>

(***************************************************************************)
(* map_website (app/core/mapper.py): try_sitemap asks for the three        *)
(* sitemap files in turn until one answers 200 and, when the sitemap gave  *)
(* fewer than five URLs, extract_urls_from_page loads the page itself.     *)
(***************************************************************************)
MapUrlSet == {U_public, U_start, U_local, U_meta}

PlainConfig ==
    [limit |-> 1, depth |-> 1, formats |-> {}, headers |-> None,
     include_patterns |-> <<>>, exclude_patterns |-> <<>>]

sitemap_urls(base_url) ==
    << base_url \o <<"/", "sitemap.xml">>,
       base_url \o <<"/", "sitemap_index.xml">>,
       base_url \o <<"/", "sitemap-index.xml">> >>

\* try_sitemap: `hit` is the first file answering 200 (0: none does);
\* the GET requests made, in order
try_sitemap(base_url, hit) ==
    [k \in 1..(IF hit = 0 THEN 3 ELSE hit) |-> Ev("get", sitemap_urls(base_url)[k])]

\* `async with browser_pool.get_page() as page: await page.goto(url)` inside
\* a try/except that swallows the exception: [log, bp, pp]
load_page(url, nav, bp, pp, pick, t) ==
    LET held == acquire(bp, pp, TRUE, None, pick)
        done == release(held.bp, held.pp, held, nav # "ok", TRUE, t)
    IN  [log |-> held.log \o <<Ev("goto", url)>> \o done.log,
         bp |-> done.bp, pp |-> done.pp]

extract_urls_from_page(url, nav, bp, pp, pick, t) ==
    load_page(url, nav, bp, pp, pick, t)

InitMap == InitOther("map", MapUrlSet, {PlainConfig})

\* `few`: the sitemap gave fewer than five URLs
MapWebsite ==
    /\ mode = "map" /\ pc = "start"
    /\ \E hit \in 0..3, few \in BOOLEAN, nav \in NavOutcomes,
          pk \in Picks(proxy_pool, now) :
         /\ hit = 0 => few
         /\ ~few => nav = "ok"
         /\ \E sm \in { try_sitemap(base_domain(op_url), hit) },
               ex \in { extract_urls_from_page(op_url, nav, browser_pool,
                                               proxy_pool, pk, now) } :
              /\ oplog' = IF few THEN sm \o ex.log ELSE sm
              /\ browser_pool' = IF few THEN ex.bp ELSE browser_pool
              /\ in_flight' = in_flight
              /\ proxy_pool' = IF few THEN ex.pp ELSE proxy_pool
    /\ pc' = "done"
    /\ UNCHANGED <<mode, op_url, crawl_vars, verdict, batch_vars, now>>

(***************************************************************************)
(* POST /analyze (app/api/routes/analyze.py): load the page and read it.   *)
(***************************************************************************)
InitAnalyze == InitOther("analyze", MapUrlSet, {PlainConfig})

AnalyzePage ==
    /\ mode = "analyze" /\ pc = "start"
    /\ \E nav \in NavOutcomes, pk \in Picks(proxy_pool, now) :
         \E ex \in { load_page(op_url, nav, browser_pool, proxy_pool, pk, now) } :
           /\ oplog' = ex.log
           /\ browser_pool' = ex.bp
           /\ in_flight' = in_flight
           /\ proxy_pool' = ex.pp
    /\ pc' = "done"
    /\ UNCHANGED <<mode, op_url, crawl_vars, verdict, batch_vars, now>>

Init == InitCrawl \/ InitBatch \/ InitScrape \/ InitMap \/ InitAnalyze

Next == NextCrawl \/ NextBatch \/ ScrapeRun \/ MapWebsite \/ AnalyzePage

Spec == Init /\ [][Next]_vars

(***************************************************************************)
(* validate_url on its own: the URL is drawn from schemes x hosts x ports  *)
(* x paths, gethostbyname answers from DnsTable, and the verdict is kept.  *)
(***************************************************************************)
GateSchemes ==
    { <<"http", "://">>, <<"https", "://">>, <<"HTTP", "://">>,
      <<"ftp", "://">>, <<"file", "://">>, <<>> }

GateHosts ==
    { <<>>, <<"localhost">>, <<"LOCALHOST">>, <<"user", "@", "localhost">>,
      <<"example.com">>, <<"site", ".internal">>, <<"intranet">>,
      <<"rebind.test">>, <<"nxdomain.test">>, <<"bad..label">>,
      <<"Metadata.Google.Internal">>, <<"instance-data">>,
      <<"169.254.169.254">>, <<"169.254.170.2">>, <<"127.0.0.1">>,
      <<"10.0.0.5">>, <<"172.31.255.255">>, <<"172.32.0.1">>, <<"8.8.8.8">>,
      <<"100.64.0.1">>, <<"100.128.0.1">>, <<"0.0.0.0">>,
      <<"[", "::1", "]">>, <<"[", "fd00:ec2::254", "]">>, <<"[", "fd12::1", "]">>,
      <<"[", "fe80::1", "]">>, <<"[", "2001:4860::8888", "]">>,
      <<"[", "::ffff:127.0.0.1", "]">> }

GatePorts ==
    { <<>>, <<":", "8080">>, <<":", "6379">>, <<":", "99999">>, <<":", "abc">> }

GatePaths == { <<>>, <<"/", "latest", "/", "meta-data">> }

\* a text without "://" is given without a port
GateUrls ==
    { s \o h \o p \o q :
        s \in GateSchemes, h \in GateHosts, p \in GatePorts, q \in GatePaths }
    \ { s \o h \o p \o q :
        s \in {<<>>}, h \in GateHosts, p \in GatePorts \ {<<>>}, q \in GatePaths }

InitGate == InitOther("gate", GateUrls, {PlainConfig})

\* one validate_url(url) call
GateCheck ==
    /\ mode = "gate" /\ pc = "start"
    /\ \E a \in Resolve(op_url) :
         verdict' = [ok |-> validate_url(op_url, FALSE, a).ok, answer |-> a]
    /\ pc' = "done"
    /\ UNCHANGED <<mode, op_url, crawl_vars, oplog, batch_vars, pool_vars, now>>

SpecGate == InitGate /\ [][GateCheck]_vars

(***************************************************************************)
(* BrowserPool.get_context under concurrent tasks.  Each task enters       *)
(* `async with browser_pool.get_context(use_proxy, extra_headers)` once:   *)
(* the code up to the yield is one step, the body runs while the task is   *)
(* "held", and the code after the yield is a second step.  The steps of    *)
(* one call that touch the free stack run under the pool's lock, and the   *)
(* proxy pool's calls under its own lock.  in_flight[i] is the i-th call:  *)
(*   [st, context, proxy, headers, ephemeral, alone]                       *)
(* with st "held" or "done", and alone telling whether no other call was   *)
(* held when this one entered.                                             *)
(***************************************************************************)
MaxTasks == 6      \* get_context calls of one run
MaxEphemeral == 2  \* those of them with a proxy or custom headers

InitPool == InitOther("pool", {U_public}, {PlainConfig})

Holding == { i \in DOMAIN in_flight : in_flight[i].st = "held" }

Ephemerals == { i \in DOMAIN in_flight : in_flight[i].ephemeral }

\* a task enters the with-block
PoolAcquire ==
    /\ mode = "pool"
    /\ Len(in_flight) < MaxTasks
    /\ \E use_proxy \in BOOLEAN, extra_headers \in {None, "Authorization"},
          pk \in Picks(proxy_pool, now) :
         \E h \in { acquire(browser_pool, proxy_pool, use_proxy,
                             extra_headers, pk) } :
           /\ h.ephemeral => Cardinality(Ephemerals) < MaxEphemeral
           /\ in_flight' = Append(in_flight,
                  [st |-> "held", exit |-> None, context |-> h.context,
                   proxy |-> h.proxy,
                   headers |-> extra_headers, ephemeral |-> h.ephemeral,
                   alone |-> Holding = {}])
           /\ browser_pool' = h.bp
           /\ proxy_pool' = h.pp
           /\ oplog' = h.log
    /\ UNCHANGED <<mode, pc, op_url, crawl_vars, verdict, batch_vars, now>>

\* the body of task i ends, normally or by an exception, and the task
\* leaves the with-block; `exit` keeps how the body of a proxy-bound call
\* ended, which is what the proxy pool is to be told
PoolRelease(i) ==
    /\ mode = "pool"
    /\ i \in Holding
    /\ \E raised \in BOOLEAN, cleared \in BOOLEAN :
         \E r \in { release(browser_pool, proxy_pool, in_flight[i], raised,
                             cleared, now) } :
           /\ in_flight' = [in_flight EXCEPT
                  ![i].st = "done",
                  ![i].exit = IF in_flight[i].proxy = 0 THEN None
                              ELSE IF raised THEN "raised" ELSE "returned"]
           /\ browser_pool' = r.bp
           /\ proxy_pool' = r.pp
           /\ oplog' = r.log
    /\ UNCHANGED <<mode, pc, op_url, crawl_vars, verdict, batch_vars, now>>

NextPool == PoolAcquire \/ \E i \in 1..MaxTasks : PoolRelease(i)

SpecPool == InitPool /\ [][NextPool]_vars

(***************************************************************************)
(* The ProxyPool on its own (app/core/proxy.py), as get_context uses it:   *)
(* get_proxy hands a proxy to a caller, which reports one outcome for it   *)
(* later, and time passes in between.  Each call runs under the pool's     *)
(* lock.  in_flight[p] counts the uses of proxy p not yet reported and     *)
(* oplog holds the latest call, [ev, url, proxy].                          *)
(***************************************************************************)
MaxGets == 7        \* get_proxy calls of one run
TickSeconds == 150  \* the clock advances by this much
MaxTime == 600      \* and stops here

\* a proxy file of two proxies under either strategy, or of three under
\* the default one
TwoProxies == <<ProxyInfo("http://p1:3128"), ProxyInfo("http://p2:3128")>>

ProxyFiles ==
    { [proxies |-> TwoProxies, current_index |-> 0, rotation_strategy |-> st] :
        st \in {"round_robin", "random"} }
    \cup
    { [proxies |-> Append(TwoProxies, ProxyInfo("http://p3:3128")),
       current_index |-> 0, rotation_strategy |-> "round_robin"] }

ProxyCall(ev, proxy) == [ev |-> ev, url |-> <<>>, proxy |-> proxy]

RECURSIVE uses_upto(_, _, _)
\* the proxies handed out so far, among the first n: reported and held
uses_upto(pp, held, n) ==
    IF n = 0 THEN 0
    ELSE pp.proxies[n].success_count + pp.proxies[n].failure_count
         + held[n].held + uses_upto(pp, held, n - 1)

InitProxy ==
    /\ mode = "proxy"
    /\ pc = "start"
    /\ op_url = U_public
    /\ config = PlainConfig
    /\ visited = {}
    /\ to_visit = <<>>
    /\ results = <<>>
    /\ job = NewJob
    /\ fetch_log = <<>>
    /\ oplog = <<>>
    /\ verdict = [ok |-> TRUE, answer |-> None]
    /\ batch_urls = <<>>
    /\ batch_state = <<>>
    /\ batch_results = <<>>
    /\ semaphore = 0
    /\ browser_pool = NewBrowserPool
    /\ proxy_pool \in ProxyFiles
    /\ in_flight = [p \in DOMAIN proxy_pool.proxies |-> [proxy |-> p, held |-> 0]]
    /\ now = 0

\* a caller takes a proxy
ProxyGet ==
    /\ mode = "proxy"
    /\ uses_upto(proxy_pool, in_flight, Len(in_flight)) < MaxGets
    /\ \E pk \in get_proxy(proxy_pool, now) :
         /\ proxy_pool' = pk.pool
         /\ in_flight' = IF pk.idx = 0 THEN in_flight
                         ELSE [in_flight EXCEPT ![pk.idx].held = @ + 1]
         /\ oplog' = <<ProxyCall("get_proxy", pk.idx)>>
    /\ UNCHANGED <<mode, pc, op_url, crawl_vars, verdict, batch_vars,
                   browser_pool, now>>

\* a caller that holds proxy p reports how its use ended
ProxyReport(p) ==
    /\ mode = "proxy"
    /\ p \in DOMAIN in_flight
    /\ in_flight[p].held > 0
    /\ \E raised \in BOOLEAN :
         /\ proxy_pool' =
               IF raised
               THEN report_failure(proxy_pool, proxy_pool.proxies[p].server, now)
               ELSE report_success(proxy_pool, proxy_pool.proxies[p].server)
         /\ oplog' = <<ProxyCall(IF raised THEN "report_failure"
                                 ELSE "report_success", p)>>
    /\ in_flight' = [in_flight EXCEPT ![p].held = @ - 1]
    /\ UNCHANGED <<mode, pc, op_url, crawl_vars, verdict, batch_vars,
                   browser_pool, now>>

\* time passes
ProxyTick ==
    /\ mode = "proxy"
    /\ now < MaxTime
    /\ now' = now + TickSeconds
    /\ UNCHANGED <<mode, pc, op_url, crawl_vars, oplog, verdict, batch_vars,
                   pool_vars>>

NextProxy == ProxyGet \/ (\E p \in 1..3 : ProxyReport(p)) \/ ProxyTick

SpecProxy == InitProxy /\ [][NextProxy]_vars

(***************************************************************************)
(* The BrowserPool between its awaits (app/core/browser.py): initialize,   *)
(* get_context without proxy or headers, and close, run by concurrent      *)
(* tasks of one event loop.  A task runs without interruption from one     *)
(* await that suspends it to the next: the awaits of the driver            *)
(* (async_playwright().start(), chromium.launch(), new_context(),          *)
(* clear_cookies(), context.close(), browser.close(), playwright.stop())   *)
(* and the wait for a lock that is taken; await self.initialize() on an   *)
(* initialized pool and `async with self._lock` on a free lock do not      *)
(* suspend.  Here the pool record also has                                 *)
(*   playwright, browser   whether _playwright and _browser are set        *)
(*   lock                  the task that holds _lock, or 0                 *)
(*   launched              how many chromium.launch() calls have returned  *)
(*   left_open             the contexts open when browser.close() returned *)
(*   close_failed          the contexts whose close() raised               *)
(* and in_flight[i] is task i: [kind, st, context, k], with st the await   *)
(* the task is suspended at, context the context it holds or closes, and   *)
(* k the position of close()'s loop over _contexts.                        *)
(***************************************************************************)
MaxLifeTasks == 3   \* concurrent tasks of one run

LifeKinds == {"get_context", "initialize", "close"}

LifeTask(kind, st, context) ==
    [kind |-> kind, st |-> st, context |-> context, k |-> 0]

\* BrowserPool.__init__
ColdPool ==
    [initialized |-> FALSE, contexts |-> <<>>, created |-> 0, closed |-> {},
     playwright |-> FALSE, browser |-> FALSE, lock |-> 0, launched |-> 0,
     left_open |-> {}, close_failed |-> {}]

\* a pool in use: the free stack is full and one more context is checked
\* out
WarmPool ==
    [ColdPool EXCEPT !.initialized = TRUE, !.playwright = TRUE,
                     !.browser = TRUE, !.launched = 1,
                     !.contexts = <<1, 2, 3, 4, 5>>, !.created = 6]

\* the result of a run of task code: the pool and the task afterwards
Ran(bp, t) == [bp |-> bp, t |-> t]

\* get_context at `async with self._lock` (browser.py:130-139)
take_context(bp, t, i) ==
    IF bp.lock # 0 THEN Ran(bp, [t EXCEPT !.st = "want_lock"])
    ELSE IF bp.contexts # <<>>
    THEN Ran([bp EXCEPT !.contexts = SubSeq(@, 1, Len(@) - 1)],
             [t EXCEPT !.st = "held", !.context = bp.contexts[Len(bp.contexts)]])
    ELSE Ran([bp EXCEPT !.lock = i], [t EXCEPT !.st = "creating"])

\* get_context's finally at `async with self._lock` (browser.py:159-169)
give_back(bp, t, i) ==
    IF bp.lock # 0 THEN Ran(bp, [t EXCEPT !.st = "want_release"])
    ELSE Ran([bp EXCEPT !.lock = i],
             [t EXCEPT !.st = IF Len(bp.contexts) < pool_size
                              THEN "clearing" ELSE "closing"])

\* close() after its loop (browser.py:76-87)
after_loop(bp, t) ==
    IF bp.browser
    THEN Ran([bp EXCEPT !.contexts = <<>>], [t EXCEPT !.st = "closing_browser"])
    ELSE IF bp.playwright
    THEN Ran([bp EXCEPT !.contexts = <<>>], [t EXCEPT !.st = "stopping"])
    ELSE Ran([bp EXCEPT !.contexts = <<>>, !.initialized = FALSE],
             [t EXCEPT !.st = "done"])

\* close() at the head of `for context in self._contexts` (browser.py:70-74)
close_loop(bp, t, k) ==
    IF k <= Len(bp.contexts)
    THEN Ran(bp, [t EXCEPT !.st = "closing_context", !.k = k,
                           !.context = bp.contexts[k]])
    ELSE after_loop(bp, t)

\* the first run of a task
first_run(bp, t, i) ==
    IF t.kind = "close" THEN close_loop(bp, t, 1)
    ELSE IF ~bp.initialized THEN Ran(bp, [t EXCEPT !.st = "starting"])
    ELSE IF t.kind = "initialize" THEN Ran(bp, [t EXCEPT !.st = "done"])
    ELSE take_context(bp, t, i)

InitLife ==
    /\ mode = "life"
    /\ pc = "start"
    /\ op_url = U_public
    /\ config = PlainConfig
    /\ visited = {}
    /\ to_visit = <<>>
    /\ results = <<>>
    /\ job = NewJob
    /\ fetch_log = <<>>
    /\ oplog = <<>>
    /\ verdict = [ok |-> TRUE, answer |-> None]
    /\ batch_urls = <<>>
    /\ batch_state = <<>>
    /\ batch_results = <<>>
    /\ semaphore = 0
    /\ proxy_pool = NoProxies
    /\ now = 0
    /\ \E kinds \in [1..MaxLifeTasks -> LifeKinds] :
         \/ /\ browser_pool = ColdPool
            /\ in_flight = [i \in 1..MaxLifeTasks |-> LifeTask(kinds[i], "start", 0)]
         \/ /\ browser_pool = WarmPool
            /\ kinds[1] = "get_context"
            /\ in_flight = [i \in 1..MaxLifeTasks |->
                               IF i = 1 THEN LifeTask("get_context", "held", 6)
                               ELSE LifeTask(kinds[i], "start", 0)]

\* task i, suspended at `st`, runs to `r`
LifeRuns(i, st, r) ==
    /\ mode = "life"
    /\ i \in DOMAIN in_flight
    /\ in_flight[i].st = st
    /\ browser_pool' = r.bp
    /\ in_flight' = [in_flight EXCEPT ![i] = r.t]
    /\ UNCHANGED <<mode, pc, op_url, crawl_vars, oplog, verdict, batch_vars,
                   proxy_pool, now>>

\* the task is scheduled for the first time
LifeStart(i) ==
    \E r \in { first_run(browser_pool, in_flight[i], i) } :
        LifeRuns(i, "start", r)

\* async_playwright().start() returns; chromium.launch() is awaited
LifeStarted(i) ==
    LifeRuns(i, "starting",
             Ran([browser_pool EXCEPT !.playwright = TRUE],
                 [in_flight[i] EXCEPT !.st = "launching"]))

\* chromium.launch() returns; initialize() ends, get_context goes on
LifeLaunched(i) ==
    \E bp \in { [browser_pool EXCEPT !.browser = TRUE, !.launched = @ + 1,
                                     !.initialized = TRUE] } :
        LifeRuns(i, "launching",
                 IF in_flight[i].kind = "initialize"
                 THEN Ran(bp, [in_flight[i] EXCEPT !.st = "done"])
                 ELSE take_context(bp, in_flight[i], i))

\* the lock is free again for a task that waited to take a context
LifeLockTaken(i) ==
    /\ browser_pool.lock = 0
    /\ LifeRuns(i, "want_lock", take_context(browser_pool, in_flight[i], i))

\* new_context() returns under the lock; the body starts
LifeCreated(i) ==
    LifeRuns(i, "creating",
             Ran([browser_pool EXCEPT !.created = @ + 1, !.lock = 0],
                 [in_flight[i] EXCEPT !.st = "held",
                                      !.context = browser_pool.created + 1]))

\* the body ends, normally or not
LifeBodyEnds(i) ==
    LifeRuns(i, "held", give_back(browser_pool, in_flight[i], i))

\* the lock is free again for a task that waited to give a context back
LifeReleaseLockTaken(i) ==
    /\ browser_pool.lock = 0
    /\ LifeRuns(i, "want_release", give_back(browser_pool, in_flight[i], i))

\* clear_cookies() returns or raises under the lock; the context is pushed
LifeCleared(i) ==
    LifeRuns(i, "clearing",
             Ran([browser_pool EXCEPT
                      !.contexts = Append(@, in_flight[i].context), !.lock = 0],
                 [in_flight[i] EXCEPT !.st = "done"]))

\* context.close() returns under the lock, the stack being full
LifeClosed(i) ==
    LifeRuns(i, "closing",
             Ran([browser_pool EXCEPT
                      !.closed = @ \cup {in_flight[i].context}, !.lock = 0],
                 [in_flight[i] EXCEPT !.st = "done"]))

\* close(): context.close() of the loop returns or raises; the loop goes on
LifeContextClosed(i) ==
    \E ok \in BOOLEAN :
      \E bp \in { IF ok THEN [browser_pool EXCEPT
                                  !.closed = @ \cup {in_flight[i].context}]
                   ELSE [browser_pool EXCEPT
                            !.close_failed = @ \cup {in_flight[i].context}] } :
        LifeRuns(i, "closing_context",
                 close_loop(bp, in_flight[i], in_flight[i].k + 1))

\* close(): browser.close() returns; playwright.stop() is awaited
LifeBrowserClosed(i) ==
    LifeRuns(i, "closing_browser",
             Ran([browser_pool EXCEPT
                      !.left_open = (1..browser_pool.created) \ browser_pool.closed],
                 [in_flight[i] EXCEPT !.st = "stopping"]))

\* close(): playwright.stop() returns; close() returns
LifeStopped(i) ==
    LifeRuns(i, "stopping",
             Ran([browser_pool EXCEPT !.initialized = FALSE],
                 [in_flight[i] EXCEPT !.st = "done"]))

NextLife ==
    \E i \in 1..MaxLifeTasks :
        \/ LifeStart(i)
        \/ LifeStarted(i)
        \/ LifeLaunched(i)
        \/ LifeLockTaken(i)
        \/ LifeCreated(i)
        \/ LifeBodyEnds(i)
        \/ LifeReleaseLockTaken(i)
        \/ LifeCleared(i)
        \/ LifeClosed(i)
        \/ LifeContextClosed(i)
        \/ LifeBrowserClosed(i)
        \/ LifeStopped(i)

SpecLife == InitLife /\ [][NextLife]_vars

(***************************************************************************)
(* A crawl or a batch whose job row is written from outside while it runs: *)
(* a client of the job store asks the job to stop by setting its status.   *)
(* The worker reads the row only inside update_job_status and in the       *)
(* except branch of the crawl loop, and a batch never reads it.            *)
(***************************************************************************)
InitStop == InitCrawl \/ InitBatch

\* the status column of the running job is set to the stop signal
StopRequested ==
    /\ \/ mode = "crawl" /\ pc = "loop"
       \/ mode = "batch" /\ pc = "start"
    /\ job.status # "stop_requested"
    /\ job' = [job EXCEPT !.status = "stop_requested"]
    /\ UNCHANGED <<mode, pc, op_url, config, visited, to_visit, results,
                   fetch_log, oplog, verdict, batch_vars, pool_vars, now>>

NextStop == NextCrawl \/ NextBatch \/ StopRequested

SpecStop == InitStop /\ [][NextStop]_vars

(***************************************************************************)
(* Two runs of _crawl_async with the same start URL and configuration.     *)
(* in_flight is <<run 1, run 2>>; a run is the locals of _crawl_async and  *)
(* its job row,                                                            *)
(*   [pc, visited, to_visit, results, job, fetched, hash_seed]             *)
(* with `fetched` the URLs handed to scrape_url in order and hash_seed the *)
(* string-hash seed of the worker process (0 for one run, 1 for the        *)
(* other), which no statement of the loop reads.  The runs are compared    *)
(* iteration by iteration: one step is the next iteration of each, and     *)
(* when both fetch the same URL, scrape_url returns or raises the same     *)
(* for both.                                                               *)
(***************************************************************************)
\* what scrape_url may do for a URL of the crawl: raise, or return a page
FetchOutcomes(formats) ==
    { [raised |-> "error", data |-> NoData] }
    \cup { [raised |-> None, data |-> page_data(formats, pg, ls)] :
             pg \in CrawlPages,
             ls \in (IF "links" \in formats THEN LinkSeqs ELSE {<<>>}) }

\* lines 118-120 and the job row crawl_website was given
NewRun(start_url, seed) ==
    [pc |-> "start", visited |-> {}, to_visit |-> << <<start_url, 0>> >>,
     results |-> <<>>, job |-> NewJob, fetched |-> <<>>, hash_seed |-> seed]

\* a frontier kept as a set: set.pop() takes the element the hash order
\* puts first
set_pop(c) ==
    LET k == IF c.hash_seed = 0 THEN 1 ELSE Len(c.to_visit)
    IN  [entry |-> c.to_visit[k],
         rest  |-> SubSeq(c.to_visit, 1, k - 1)
                   \o SubSeq(c.to_visit, k + 1, Len(c.to_visit))]

\* to_visit.pop(0): the entry taken and the list afterwards
pop(c) == [entry |-> Head(c.to_visit), rest |-> Tail(c.to_visit)]

\* `while to_visit and len(results) < limit`
run_continues(c) == c.to_visit # <<>> /\ Len(c.results) < config.limit

\* the three `continue` tests for the popped entry
run_skipped(c, entry) ==
    \/ entry[1] \in c.visited
    \/ entry[2] > config.depth
    \/ ~should_crawl_url(entry[1], config.include_patterns,
                         config.exclude_patterns)

\* lines 143-186 for the popped entry, with `o` what scrape_url did
run_body(c, p, o) ==
    LET url   == p.entry[1]
        d     == p.entry[2]
        seen  == c.visited \cup {url}
        valid == o.raised = None /\ is_valid_content(o.data).valid
        res   == IF valid THEN Append(c.results, [url |-> url, depth |-> d])
                 ELSE c.results
    IN  [c EXCEPT
           !.visited  = seen,
           !.results  = res,
           !.fetched  = Append(@, url),
           !.job      = IF o.raised # None THEN count_failure(@)
                        ELSE IF valid
                        THEN update_job_status(@, "running",
                                 Len(p.rest) + Len(res), Len(res), <<>>, NoTime)
                        ELSE @,
           !.to_visit = IF /\ o.raised = None
                           /\ d < config.depth
                           /\ "links" \in DOMAIN o.data
                        THEN p.rest \o new_entries(o.data["links"],
                                                   base_domain(op_url), seen, d + 1)
                        ELSE p.rest]

\* the run's next piece of code: the first job update, one iteration of
\* the loop, or the last job update
run_step(c, o, t) ==
    IF c.pc = "start"
    THEN [c EXCEPT !.pc = "loop",
                   !.job = update_job_status(@, "running", 1, 0, <<>>, NoTime)]
    ELSE IF c.pc = "loop" /\ run_continues(c)
    THEN IF run_skipped(c, pop(c).entry)
         THEN [c EXCEPT !.to_visit = pop(c).rest]
         ELSE run_body(c, pop(c), o)
    ELSE IF c.pc = "loop"
    THEN [c EXCEPT !.pc = "done",
                   !.job = update_job_status(@, "completed", Len(c.results),
                                             Len(c.results), <<c.results>>, t)]
    ELSE c

\* the URL the run's next step hands to scrape_url, or <<>>
run_fetches(c) ==
    IF c.pc = "loop" /\ run_continues(c) /\ ~run_skipped(c, pop(c).entry)
    THEN pop(c).entry[1] ELSE <<>>

\* what scrape_url may do in the run's next step; a step without a fetch
\* has the one outcome that is never looked at
run_outcomes(c) ==
    IF run_fetches(c) = <<>> THEN { [raised |-> None, data |-> NoData] }
    ELSE FetchOutcomes(config.formats)

InitTwin ==
    /\ mode = "twin"
    /\ pc = "start"
    /\ op_url = U_start
    /\ config \in CrawlConfigs
    /\ visited = {}
    /\ to_visit = <<>>
    /\ results = <<>>
    /\ job = NewJob
    /\ fetch_log = <<>>
    /\ oplog = <<>>
    /\ verdict = [ok |-> TRUE, answer |-> None]
    /\ batch_urls = <<>>
    /\ batch_state = <<>>
    /\ batch_results = <<>>
    /\ semaphore = 0
    /\ browser_pool = NewBrowserPool
    /\ proxy_pool = NoProxies
    /\ now = 0
    /\ in_flight = <<NewRun(op_url, 0), NewRun(op_url, 1)>>

\* each run takes its next step
TwinStep ==
    /\ mode = "twin"
    /\ \E i \in DOMAIN in_flight : in_flight[i].pc # "done"
    /\ \E o1 \in run_outcomes(in_flight[1]) :
         \E o2 \in (IF run_fetches(in_flight[1]) = run_fetches(in_flight[2])
                    THEN {o1} ELSE run_outcomes(in_flight[2])) :
           in_flight' = <<run_step(in_flight[1], o1, now),
                          run_step(in_flight[2], o2, now)>>
    /\ UNCHANGED <<mode, pc, op_url, crawl_vars, oplog, verdict, batch_vars,
                   browser_pool, proxy_pool, now>>

SpecTwin == InitTwin /\ [][TwinStep]_vars

(***************************************************************************)
(* Properties.                                                             *)
(***************************************************************************)
Last(s) == s[Len(s)]

RequestEvents == {"goto", "get", "head"}

\* C1: every browser navigation and every raw HTTP request of an operation
\* comes after validate_url has passed the operation's URL in that same
\* operation, on every path: scrape_url, the crawl loop, the batch executor,
\* map_website (try_sitemap, extract_urls_from_page) and analyze_page.
C1_RequestsAreGated ==
    \A i \in DOMAIN oplog :
        oplog[i].ev \in RequestEvents =>
            \E j \in 1..(i - 1) :
                /\ oplog[j].ev = "validate_pass"
                /\ oplog[j].url = IF mode = "map" THEN op_url ELSE oplog[i].url

\* the part of C1 that the code keeps: the paths through scrape_url
C1_ScrapePathsGated ==
    mode \in {"crawl", "batch", "scrape"} => C1_RequestsAreGated

\* analyze_page has navigated to the metadata address
C1_UngatedNavigation ==
    /\ mode = "analyze" /\ pc = "done"
    /\ op_url = U_meta
    /\ \E i \in DOMAIN oplog : oplog[i] = Ev("goto", U_meta)
    /\ \A i \in DOMAIN oplog : oplog[i].ev # "validate_pass"

IsBlocked(e) == e.raised = "SSRFBlockedError"
HasRaised(e) == e.raised # None

\* the scrape_url calls made for URL u, and those of them the gate rejected
Calls(u) == Cardinality({ i \in DOMAIN fetch_log : fetch_log[i].url = u })
BlockedCalls(u) ==
    Cardinality({ i \in DOMAIN fetch_log :
                    fetch_log[i].url = u /\ IsBlocked(fetch_log[i]) })

\* the positions of a batch's input that name URL u, and the records of
\* its result that report u rejected
Positions(u) == Cardinality({ i \in DOMAIN batch_urls : batch_urls[i] = u })
RejectionRecords(u) ==
    Cardinality({ i \in DOMAIN batch_results :
                    /\ batch_results[i].url = u
                    /\ ~batch_results[i].success
                    /\ batch_results[i].error = "SSRFBlockedError" })

\* a scrape_url call that the gate rejected made no request, chose no proxy,
\* took no context and left both pools as they were
C2_RejectedStep ==
    (/\ Len(fetch_log') = Len(fetch_log) + 1
     /\ IsBlocked(Last(fetch_log')))
    => /\ oplog' = <<Ev("validate_fail", Last(fetch_log').url)>>
       /\ browser_pool' = browser_pool
       /\ proxy_pool' = proxy_pool

\* a crawl calls scrape_url at most once for a rejected URL and counts every
\* raised fetch once
C2_CrawlOnce ==
    mode = "crawl" =>
        /\ \A i, j \in DOMAIN fetch_log :
              IsBlocked(fetch_log[i]) /\ fetch_log[i].url = fetch_log[j].url
                  => i = j
        /\ job.failed = Cardinality({ i \in DOMAIN fetch_log :
                                         HasRaised(fetch_log[i]) })

\* a batch calls scrape_url once for each position of its input and returns
\* one record for each position, a failure record where the gate rejected
C2_BatchPerPosition ==
    mode = "batch" =>
        /\ \A u \in BatchUrlSet : Calls(u) <= Positions(u)
        /\ pc = "done" =>
              /\ Len(batch_results) = Len(batch_urls)
              /\ Len(fetch_log) = Len(batch_urls)
              /\ \A i \in DOMAIN batch_urls :
                    batch_results[i].url = batch_urls[i]
              /\ \A u \in BatchUrlSet : BlockedCalls(u) = RejectionRecords(u)

C3_Listed(url, answer) ==
    LET parsed == urlparse(url)
        host   == parsed.hostname
    IN  \/ parsed.scheme \notin {"http", "https"}
        \/ host = <<>>
        \/ host \in BLOCKED_HOSTNAMES
        \/ is_ip_literal(host) /\ is_ip_blocked(host[1])
        \/ ~is_ip_literal(host) /\ answer \in DOMAIN IPTable
             /\ is_ip_blocked(answer)

\* the check itself raises: the port is not a number in 0..65535, or the
\* resolver raises something other than gaierror
C3_CheckRaises(url, answer) ==
    \/ port_raises(urlparse(url))
    \/ ~is_ip_literal(urlparse(url).hostname) /\ answer = "raise"

C3_Examples ==
    /\ op_url = <<"http", "://", "169.254.169.254", "/", "latest", "/", "meta-data">>
          => ~verdict.ok
    /\ op_url = <<"http", "://", "localhost", ":", "8080">> => ~verdict.ok
    /\ op_url = <<"https", "://", "example.com">> /\ verdict.answer = "93.184.216.34"
          => verdict.ok

\* C3 (as amended): validate_url fails for every URL whose scheme is not
\* http or https, that has no hostname, whose lower-cased hostname is in the
\* deny-list, whose host is an IP literal or resolves to an IP in a blocked
\* range or metadata address, or whose check raises (a port that is not a
\* number in 0..65535, a resolver error other than gaierror); it passes
\* every other URL; the metadata and localhost examples fail and
\* https://example.com passes.
C3_GateVerdict ==
    (mode = "gate" /\ pc = "done") =>
        /\ verdict.ok <=> ~(\/ C3_Listed(op_url, verdict.answer)
                            \/ C3_CheckRaises(op_url, verdict.answer))
        /\ C3_Examples

\* a public host with an out-of-range port has been rejected
C3_BadPortRejected ==
    /\ mode = "gate" /\ pc = "done"
    /\ op_url = <<"https", "://", "example.com", ":", "99999">>
    /\ verdict.answer = "93.184.216.34"
    /\ ~C3_Listed(op_url, verdict.answer)
    /\ ~verdict.ok

\* C3 (as stated): validate_url fails exactly for the URLs with a listed
\* reason and passes every other URL.
C3_OnlyListedFail ==
    (mode = "gate" /\ pc = "done") =>
        /\ verdict.ok <=> ~C3_Listed(op_url, verdict.answer)
        /\ C3_Examples

\* the URLs a crawl of the model can meet
CrawlUrls == {U_start, U_local} \cup LinkUrls

\* a crawl that has not ended can take a step: the loop test and the
\* `continue` tests decide between its steps, and a fetch has an outcome
C4_NotStuck ==
    (mode = "crawl" /\ pc = "loop" /\ loop_continues /\ ~skipped) =>
        /\ Resolve(current_url) # {}
        /\ Picks(proxy_pool, now) # {}

\* every step of a crawl moves it on: it leaves its stage, or it adds a URL
\* to the visited set, or it shortens the frontier and adds none
C4_Decreases ==
    mode = "crawl" =>
        \/ pc # pc' /\ pc' \in {"loop", "done", "aborted"}
                     /\ pc \notin {"done", "aborted"}
        \/ /\ visited \subseteq visited' /\ visited # visited'
        \/ /\ visited' = visited /\ Len(to_visit') < Len(to_visit)

\* C4: for any finite link graph, limit and max_depth the crawl loop
\* terminates, with cycles among the pages and with fetches that fail:
\* the loop is never stuck, the visited set stays within the finite set of
\* the graph's URLs, and every iteration either adds a URL to it or only
\* shortens the frontier.
C4_CrawlTerminates ==
    /\ [](C4_NotStuck /\ (mode = "crawl" => visited \subseteq CrawlUrls))
    /\ [][C4_Decreases]_vars

\* a crawl with a failed fetch and a frontier entry met again has ended
C4_EndedAfterFailure ==
    /\ mode = "crawl" /\ pc = "done"
    /\ to_visit = <<>>
    /\ Len(fetch_log) >= 3
    /\ \E i \in DOMAIN fetch_log : HasRaised(fetch_log[i])

IsFetch == Len(fetch_log') = Len(fetch_log) + 1

\* C5: within one crawl a URL is in the visited set from its fetch on,
\* whatever the fetch's outcome, and no URL is fetched more than once, also
\* when it was enqueued several times or its fetch raised.
C5_FetchedOnce ==
    mode = "crawl" =>
        /\ \A i, j \in DOMAIN fetch_log :
              fetch_log[i].url = fetch_log[j].url => i = j
        /\ visited = { fetch_log[i].url : i \in DOMAIN fetch_log }

\* a URL whose fetch raised is waiting in the frontier once more
C5_RaisedUrlWaitsAgain ==
    /\ mode = "crawl" /\ pc = "loop"
    /\ \E k \in DOMAIN to_visit, i \in DOMAIN fetch_log :
          /\ to_visit[k][1] = fetch_log[i].url
          /\ HasRaised(fetch_log[i])

\* a step of the loop drops the head of the frontier and, when it fetched,
\* appends entries one level below the fetched page
C6_Step ==
    (mode = "crawl" /\ to_visit' # to_visit) =>
        /\ SubSeq(to_visit', 1, Len(to_visit) - 1) = Tail(to_visit)
        /\ \A k \in Len(to_visit)..Len(to_visit') :
              /\ IsFetch
              /\ to_visit'[k][2] = Last(fetch_log').depth + 1

\* C6: the seed entry has depth 0, every other frontier entry has the depth
\* of the page it was found on plus 1, and no entry with a depth above
\* max_depth is fetched.
C6_Depths ==
    /\ []((mode = "crawl" /\ pc = "start") => to_visit = << <<op_url, 0>> >>)
    /\ [][C6_Step]_vars
    /\ [](mode = "crawl" =>
            \A i \in DOMAIN fetch_log : fetch_log[i].depth <= config.depth)

\* a page at the deepest level allowed has been fetched
C6_DeepestFetched ==
    /\ mode = "crawl"
    /\ config.depth >= 2
    /\ \E i \in DOMAIN fetch_log : fetch_log[i].depth = config.depth

NonDecreasing(s) == \A i, j \in DOMAIN s : i <= j => s[i] <= s[j]

\* a fetch takes the head of the frontier, and nothing shallower is waiting
C7_Step ==
    (mode = "crawl" /\ IsFetch) =>
        /\ Last(fetch_log').url = Head(to_visit)[1]
        /\ Last(fetch_log').depth = Head(to_visit)[2]
        /\ \A k \in DOMAIN to_visit : to_visit[k][2] >= Last(fetch_log').depth

\* C7: pages are fetched in FIFO frontier order: the fetched pages have
\* non-decreasing depth, no page of depth d+1 is fetched while an entry of
\* depth d waits in the frontier, and the results have non-decreasing depth.
C7_FifoOrder ==
    /\ [][C7_Step]_vars
    /\ [](mode = "crawl" =>
            /\ NonDecreasing([i \in DOMAIN fetch_log |-> fetch_log[i].depth])
            /\ NonDecreasing([i \in DOMAIN results |-> results[i].depth])
            /\ NonDecreasing([i \in DOMAIN to_visit |-> to_visit[i][2]]))

\* pages of two depths were fetched and more than one result was kept
C7_TwoLevelsFetched ==
    /\ mode = "crawl"
    /\ Len(results) >= 2
    /\ \E i, j \in DOMAIN fetch_log : fetch_log[i].depth < fetch_log[j].depth
    /\ \E i, j \in DOMAIN to_visit : to_visit[i][2] < to_visit[j][2]

\* C8: at every point of a crawl the results are at most limit, and no fetch
\* starts once the results have reached limit.
C8_LimitKept ==
    mode = "crawl" =>
        /\ Len(results) <= config.limit
        /\ \A i \in DOMAIN fetch_log : fetch_log[i].nres < config.limit

\* the crawl ended at its limit with entries left in the frontier
C8_StoppedAtLimit ==
    /\ mode = "crawl" /\ pc = "done"
    /\ Len(results) = config.limit
    /\ to_visit # <<>>

\* what C9 says of a URL under the crawl's patterns
C9_Accepted(url) ==
    LET matches(ps) == \E i \in DOMAIN ps : fnmatch(url, ps[i])
    IN  /\ ~matches(config.exclude_patterns)
        /\ config.include_patterns = <<>> \/ matches(config.include_patterns)

\* C9: should_crawl_url rejects a URL that matches an exclude pattern, also
\* when it matches an include pattern; with include patterns given it
\* rejects a URL that matches none; with no patterns it accepts every URL;
\* and the crawl never fetches a rejected URL.
C9_PatternsDecide ==
    mode = "crawl" =>
        /\ \A k \in DOMAIN to_visit :
              should_crawl_url(to_visit[k][1], config.include_patterns,
                               config.exclude_patterns)
                 <=> C9_Accepted(to_visit[k][1])
        /\ (config.include_patterns = <<>> /\ config.exclude_patterns = <<>>) =>
              \A k \in DOMAIN to_visit :
                  should_crawl_url(to_visit[k][1], <<>>, <<>>)
        /\ \A i \in DOMAIN fetch_log : C9_Accepted(fetch_log[i].url)

\* a URL matching an include and an exclude pattern, and one matching no
\* include pattern, wait in the frontier of a crawl that has fetched a page
C9_RejectedWaiting ==
    /\ mode = "crawl" /\ pc = "loop"
    /\ fetch_log # <<>>
    /\ \E k \in DOMAIN to_visit : to_visit[k][1] = U_admin
    /\ \E k \in DOMAIN to_visit : to_visit[k][1] = U_about
    /\ fnmatch(U_admin, P_docs) /\ fnmatch(U_admin, P_admin)
    /\ config.include_patterns = <<P_docs>>

\* what C10 calls an invalid page
C10_Invalid(content) ==
    \/ \E i \in DOMAIN JUNK_CONTENT_PATTERNS :
          contains_lower(content, JUNK_CONTENT_PATTERNS[i])
    \/ len(strip(content)) < MIN_CONTENT_LENGTH

\* C10: a fetched page that is invalid (a bot-challenge phrase in its
\* content, or a stripped content shorter than 50 characters) is not
\* appended to the results and does not raise the completed counter, and
\* its same-domain links are enqueued at depth+1 exactly as for a valid
\* page with the same links.
C10_InvalidPageLinks ==
    (mode = "crawl" /\ pc = "loop" /\ loop_continues /\ ~skipped) =>
        \A a \in Resolve(current_url), pg \in Pages, ls \in LinkSeqs,
           pk \in Picks(proxy_pool, now) :
            (EnvOk(config.formats, "ok", pg, ls) /\ C10_Invalid(pg.markdown)) =>
                \A it \in { crawl_iteration(Env(a, "ok", pg, ls, pk)) },
                   ref \in { crawl_iteration(Env(a, "ok", PageValid, ls, pk)) } :
                    it.entry.raised = None =>
                        /\ it.results = results
                        /\ it.job.completed = job.completed
                        /\ ref.results # results
                        /\ it.to_visit = ref.to_visit
                        /\ \A k \in Len(to_visit)..Len(it.to_visit) :
                              /\ it.to_visit[k][2] = current_depth + 1
                              /\ startswith(it.to_visit[k][1], base_domain(op_url))

\* the first page of a crawl was invalid and its links are in the frontier
C10_InvalidPageEnqueued ==
    /\ mode = "crawl" /\ pc = "loop"
    /\ Len(fetch_log) = 1
    /\ fetch_log[1].raised = None /\ ~fetch_log[1].valid
    /\ results = <<>> /\ job.completed = 0
    /\ Len(to_visit) = 2
    /\ \A k \in DOMAIN to_visit : to_visit[k][2] = 1

\* the entries C11 expects behind the frontier after a fetch: the page's
\* links on the start URL's domain that are not visited, one deeper
C11_Expected(ls) ==
    LET wanted(l) == startswith(l, base_domain(op_url))
                       /\ l \notin (visited \cup {current_url})
        sel       == SelectSeq(ls, wanted)
    IN  [i \in 1..Len(sel) |-> <<sel[i], current_depth + 1>>]

\* a fetch of the current frontier entry that returns a page with links ls
\* leaves the frontier as C11 describes
C11_Enqueues(formats) ==
    (/\ mode = "crawl" /\ pc = "loop" /\ loop_continues /\ ~skipped
     /\ config.formats = formats
     /\ current_depth < config.depth) =>
        \A a \in Resolve(current_url), pg \in CrawlPages, ls \in LinkSeqs,
           pk \in Picks(proxy_pool, now) :
            \A it \in { crawl_iteration(Env(a, "ok", pg, ls, pk)) } :
                it.entry.raised = None =>
                    it.to_visit = Tail(to_visit) \o C11_Expected(ls)

\* C11: after every successful fetch of a page at depth d < max_depth,
\* every outbound link of the page that is on the start URL's domain and
\* not yet visited is appended to the frontier at depth d+1, whatever
\* scrape_options the job was started with, the default formats included.
C11_LinksEnqueued ==
    \A formats \in FormatConfigs : C11_Enqueues(formats)

\* the same for the jobs whose scrape_options ask for the "links" format
C11_EnqueuedWhenAsked ==
    \A formats \in { f \in FormatConfigs : "links" \in f } : C11_Enqueues(formats)

\* a crawl with the default formats, depth 2 and limit 2 has ended after its
\* start page alone: the page was fetched and accepted, nothing was enqueued
C11_DefaultCrawlEnded ==
    /\ mode = "crawl" /\ pc = "done"
    /\ config.formats = {"markdown", "metadata"}
    /\ config.depth = 2 /\ config.limit = 2
    /\ Len(fetch_log) = 1
    /\ fetch_log[1].raised = None /\ fetch_log[1].valid
    /\ Len(results) = 1

\* the fetches of the crawl so far that raised
C12_Raised == { i \in DOMAIN fetch_log : HasRaised(fetch_log[i]) }

\* an iteration whose fetch raised counts one failure, appends no result
\* and leaves the loop running on the rest of the frontier; no other step
\* changes the failed counter, and the loop ends only by its own test
C12_Step ==
    mode = "crawl" =>
        /\ (IsFetch /\ HasRaised(Last(fetch_log'))) =>
              /\ job'.failed = job.failed + 1
              /\ job'.status = job.status
              /\ results' = results
              /\ to_visit' = Tail(to_visit)
              /\ pc' = "loop"
        /\ ~(IsFetch /\ HasRaised(Last(fetch_log'))) => job'.failed = job.failed
        /\ (pc = "loop" /\ pc' = "done") => ~loop_continues

C13_Rank(status) ==
    CASE status = "pending" -> 0 [] status = "running" -> 1
      [] status = "completed" -> 2 [] OTHER -> 3

\* a step moves the status on by at most one stage and never back, the
\* loop is left only when its test fails, and a completed row is not
\* written again
C13_Step ==
    mode = "crawl" =>
        /\ C13_Rank(job'.status) \in { C13_Rank(job.status), C13_Rank(job.status) + 1 }
        /\ (pc = "loop" /\ pc' = "done") =>
              /\ to_visit = <<>> \/ Len(results) >= config.limit
              /\ job.status = "running" /\ job'.status = "completed"
        /\ job.status = "completed" => job' = job

\* C13: the stored status of a crawl job only moves pending -> running ->
\* completed; when the loop exits, on an empty frontier or at the limit,
\* the job is marked completed with the final results and a completion
\* timestamp, and the crawl writes the job no more after that.
C13_StatusMovesForward ==
    /\ [][C13_Step]_vars
    /\ [](mode = "crawl" =>
            /\ job.status \in {"pending", "running", "completed"}
            /\ pc = "start" => job.status = "pending"
            /\ pc = "loop" => job.status = "running"
            /\ pc = "done" =>
                  /\ job.status = "completed"
                  /\ job.results = <<results>>
                  /\ job.completed_at = now /\ job.completed_at # NoTime)

\* a job completed at the limit with entries left in the frontier
C13_CompletedAtLimit ==
    /\ mode = "crawl" /\ pc = "done"
    /\ job.status = "completed"
    /\ job.results = <<results>> /\ Len(results) = config.limit
    /\ config.limit = 2
    /\ to_visit # <<>>
    /\ job.completed_at # NoTime

\* C14: every crawl job handed to crawl_task reaches a terminal status:
\* once the task has returned, the job is completed when the traversal ran
\* to frontier exhaustion or the limit, and failed with error set when the
\* traversal could not start or aborted with an error, so that no job is
\* left pending or running for ever; and a job is never marked failed
\* because of page failures.
C14_TerminalStatus ==
    mode = "crawl" =>
        /\ pc = "done" => job.status = "completed"
        /\ pc = "aborted" => job.status = "failed" /\ job.error # None
        /\ job.status = "failed" => pc = "aborted"

\* crawl_task has returned its error and the job is still running, without
\* an error text
C14_AbortedLeftRunning ==
    /\ mode = "crawl" /\ pc = "aborted"
    /\ job.status = "running"
    /\ job.error = None
    /\ fetch_log # <<>>

\* the calls that were bound to a proxy or carried custom headers
C15_Bound == { i \in DOMAIN in_flight :
                 in_flight[i].proxy # 0 \/ in_flight[i].headers # None }

\* C15: a context handed out for an acquisition that is bound to a proxy
\* or carries custom headers is closed on release and never enters the
\* free stack, so no other acquisition, plain or not, ever returns it,
\* under any interleaving of acquisitions and releases.
C15_BoundContextNotReused ==
    mode = "pool" =>
        \A i \in C15_Bound :
            /\ in_flight[i].context \notin Range(browser_pool.contexts)
            /\ in_flight[i].st = "done" =>
                  in_flight[i].context \in browser_pool.closed
            /\ \A j \in DOMAIN in_flight \ {i} :
                  in_flight[j].context # in_flight[i].context

\* a proxy-bound call and a call with headers have released, and a plain
\* call after them was served a context that an earlier plain call had used
C15_PlainReuseAfterBound ==
    /\ mode = "pool"
    /\ \E i, k \in C15_Bound :
          /\ in_flight[i].proxy # 0 /\ in_flight[i].st = "done"
          /\ in_flight[k].proxy = 0 /\ in_flight[k].st = "done"
          /\ \E j \in DOMAIN in_flight \ C15_Bound :
                /\ j > i /\ j > k
                /\ \E m \in 1..(j - 1) : in_flight[m].context = in_flight[j].context

\* the run so far is a sequence of plain acquire/release cycles, each
\* entered when no other call was held
C16_SequentialPlain ==
    /\ mode = "pool"
    /\ in_flight # <<>>
    /\ \A i \in DOMAIN in_flight :
          /\ in_flight[i].proxy = 0 /\ in_flight[i].headers = None
          /\ in_flight[i].alone

\* C16: in N sequential plain (no proxy, no headers) acquire/release
\* cycles on a pool, 1 <= N <= pool_size, at most one context is
\* constructed: every cycle after the first is served from the free stack.
C16_OneConstruction ==
    (C16_SequentialPlain /\ Len(in_flight) <= pool_size) =>
        /\ browser_pool.created <= 1
        /\ \A i \in DOMAIN in_flight : in_flight[i].context = in_flight[1].context

\* pool_size sequential plain cycles have ended with one context made
C16_FiveCyclesOneContext ==
    /\ C16_SequentialPlain
    /\ Len(in_flight) = pool_size
    /\ Holding = {}
    /\ browser_pool.created = 1
    /\ browser_pool.contexts = <<1>>

\* the plain calls that hold a context
C17_CheckedOutPlain ==
    { i \in Holding : in_flight[i].proxy = 0 /\ in_flight[i].headers = None }

\* C17: in every reachable state the number of live poolable contexts,
\* those idle in the free stack plus those checked out by plain
\* acquisitions, is at most pool_size, also when more than pool_size plain
\* acquisitions are in flight at once.
C17_LivePoolableBounded ==
    mode = "pool" =>
        Len(browser_pool.contexts) + Cardinality(C17_CheckedOutPlain) <= pool_size

\* more plain calls than pool_size hold a context each, all of them live
C17_SixPlainContextsLive ==
    /\ mode = "pool"
    /\ Cardinality(C17_CheckedOutPlain) = pool_size + 1
    /\ browser_pool.created = pool_size + 1
    /\ browser_pool.closed = {}
    /\ \A i, j \in C17_CheckedOutPlain :
          i # j => in_flight[i].context # in_flight[j].context

\* the contexts that were constructed and are not closed
C18_Live == (1..browser_pool.created) \ browser_pool.closed

\* the places a context is at: positions of the free stack and calls that
\* hold it
C18_Idle(c) == { k \in DOMAIN browser_pool.contexts : browser_pool.contexts[k] = c }
C18_Holders(c) == { i \in Holding : in_flight[i].context = c }

\* C18: at every moment each live context is either idle in the free
\* stack, where it appears once, or checked out by exactly one in-flight
\* operation, never both; two concurrent get_context calls never receive
\* the same context.
C18_ExclusiveOwner ==
    mode = "pool" =>
        /\ \A c \in C18_Live :
              Cardinality(C18_Idle(c)) + Cardinality(C18_Holders(c)) = 1
        /\ \A c \in browser_pool.closed :
              C18_Idle(c) = {} /\ C18_Holders(c) = {}
        /\ \A i, j \in Holding :
              i # j => in_flight[i].context # in_flight[j].context

\* two calls hold contexts at once, one of them a context that an earlier
\* call had used, while another context is idle in the free stack
C18_ReusedWhileOthersHeld ==
    /\ mode = "pool"
    /\ Cardinality(Holding) >= 2
    /\ browser_pool.contexts # <<>>
    /\ \E i \in Holding : \E m \in 1..(i - 1) :
          in_flight[m].context = in_flight[i].context

\* task i leaves the with-block in this step
C19_Released(i) ==
    /\ i \in DOMAIN in_flight
    /\ in_flight[i].st = "held"
    /\ in_flight'[i].st = "done"

\* the kinds of the events of the last operation, in order
C19_Events == [k \in DOMAIN oplog |-> oplog[k].ev]

\* what a release of task i does with its context
C19_Step ==
    \A i \in 1..MaxTasks :
        /\ (i \in DOMAIN in_flight /\ in_flight[i].st = "done") =>
               in_flight'[i] = in_flight[i]
        /\ C19_Released(i) =>
              /\ in_flight[i].context \notin browser_pool.closed
              /\ IF ~in_flight[i].ephemeral
                     /\ Len(browser_pool.contexts) < pool_size
                 THEN /\ browser_pool'.contexts =
                            Append(browser_pool.contexts, in_flight[i].context)
                      /\ browser_pool'.closed = browser_pool.closed
                      /\ "return_context" \in Range(C19_Events')
                      /\ "close_context" \notin Range(C19_Events')
                 ELSE /\ browser_pool'.contexts = browser_pool.contexts
                      /\ browser_pool'.closed =
                            browser_pool.closed \cup {in_flight[i].context}
                      /\ "close_context" \in Range(C19_Events')
                      /\ "return_context" \notin Range(C19_Events')
                      /\ "clear_cookies_failed" \notin Range(C19_Events')

\* C19: on release, after a normal or an exceptional exit of the
\* with-block, a poolable context is pushed onto the free stack exactly
\* when the stack holds fewer than pool_size contexts and is otherwise
\* closed, a failure to clear its cookies does not prevent the push, and
\* an ephemeral context is always closed; every handed-out context is
\* pushed or closed exactly once, and the free stack never holds more
\* than pool_size contexts.
C19_ReleaseRule ==
    /\ [][C19_Step]_vars
    /\ [](Len(browser_pool.contexts) <= pool_size)
    /\ [](\A i \in DOMAIN in_flight :
            (in_flight[i].st = "done" /\ in_flight[i].ephemeral) =>
                in_flight[i].context \in browser_pool.closed)

\* the free stack is full and the release of a sixth plain call has
\* closed its context
C19_ClosedWhenFull ==
    /\ mode = "pool"
    /\ Len(browser_pool.contexts) = pool_size
    /\ C19_Events = <<"close_context">>
    /\ \E i \in DOMAIN in_flight :
          /\ in_flight[i].st = "done"
          /\ ~in_flight[i].ephemeral
          /\ in_flight[i].context \in browser_pool.closed

\* the report events of the last operation
C20_Reports ==
    { k \in DOMAIN oplog : oplog[k].ev \in {"report_success", "report_failure"} }

\* the counters of proxy p
C20_Counts(p) ==
    <<proxy_pool.proxies[p].success_count, proxy_pool.proxies[p].failure_count>>

\* what a release of task i reports
C20_Step ==
    \A i \in 1..MaxTasks :
        C19_Released(i) =>
            IF in_flight[i].proxy = 0
            THEN /\ proxy_pool' = proxy_pool
                 /\ C20_Reports' = {}
            ELSE /\ Cardinality(C20_Reports') = 1
                 /\ \A k \in C20_Reports' :
                       /\ oplog'[k].ev = (IF in_flight'[i].exit = "raised"
                                          THEN "report_failure"
                                          ELSE "report_success")
                       /\ \E c \in DOMAIN oplog' :
                             oplog'[c].ev = "close_context" /\ k < c
                 /\ C20_Counts(in_flight[i].proxy)' =
                       (IF in_flight'[i].exit = "raised"
                        THEN <<C20_Counts(in_flight[i].proxy)[1],
                               C20_Counts(in_flight[i].proxy)[2] + 1>>
                        ELSE <<C20_Counts(in_flight[i].proxy)[1] + 1,
                               C20_Counts(in_flight[i].proxy)[2]>>)
                 /\ \A q \in DOMAIN proxy_pool.proxies \ {in_flight[i].proxy} :
                       proxy_pool'.proxies[q] = proxy_pool.proxies[q]

C28_Fetches(i) ==
    { k \in DOMAIN fetch_log : fetch_log[k].url = batch_urls[i] }

\* the record of a returned fetch and the record of a raised one
C28_IsSuccess(rec) ==
    /\ DOMAIN rec = {"url", "success", "data"}
    /\ rec.success
    /\ "markdown" \in DOMAIN rec.data

C28_IsFailure(rec) ==
    /\ DOMAIN rec = {"url", "success", "error"}
    /\ ~rec.success
    /\ rec.error # None

\* the fetch of task i ends in this step
C28_Ends(i) ==
    /\ i \in DOMAIN batch_state
    /\ batch_state[i].st = "running"
    /\ batch_state'[i].st = "done"

\* the end of one fetch writes its own record, by its outcome, and leaves
\* every other task as it was
C28_Step ==
    \A i \in 1..MaxBatch :
        C28_Ends(i) =>
            /\ batch_state'[i].ret.url = batch_urls[i]
            /\ IF Last(fetch_log').raised = None
               THEN C28_IsSuccess(batch_state'[i].ret)
               ELSE /\ C28_IsFailure(batch_state'[i].ret)
                    /\ batch_state'[i].ret.error = Last(fetch_log').raised
            /\ \A j \in DOMAIN batch_state \ {i} : batch_state'[j] = batch_state[j]

\* the list a finished batch returns
C28_Returned ==
    (mode = "batch" /\ pc = "done") =>
        /\ Len(batch_results) = Len(batch_urls)
        /\ \A i \in DOMAIN batch_urls :
              /\ batch_results[i] = batch_state[i].ret
              /\ batch_results[i].url = batch_urls[i]
              /\ C28_IsSuccess(batch_results[i]) \/ C28_IsFailure(batch_results[i])
        /\ Cardinality({ i \in DOMAIN batch_results : batch_results[i].success })
             = Cardinality({ k \in DOMAIN fetch_log : fetch_log[k].raised = None })

\* C28: for any input list of URLs the batch executor returns exactly one
\* record per input position, record i carrying input URL i, with
\* success=true and data when that URL's fetch returned and success=false
\* and error when it raised or timed out; a failing URL changes no other
\* record and cancels no sibling fetch.
C28_OneRecordPerPosition ==
    /\ [][mode = "batch" => C28_Step]_vars
    /\ []C28_Returned

\* three URLs, the second timed out: three records in input order, the
\* first and the third successful
C28_OneTimeoutAmongThree ==
    /\ mode = "batch" /\ pc = "done"
    /\ batch_urls = <<U_public, U_public, U_pdf>>
    /\ batch_results[1].success /\ batch_results[3].success
    /\ ~batch_results[2].success
    /\ batch_results[2].error = "Timeout while scraping"

\* the tasks of a batch by position in the code
C29_In(st) == { i \in DOMAIN batch_state : batch_state[i].st = st }

\* a task only moves from waiting to running to done
C29_Step ==
    \A i \in DOMAIN batch_state :
        \/ batch_state'[i].st = batch_state[i].st
        \/ batch_state[i].st = "waiting" /\ batch_state'[i].st = "running"
        \/ batch_state[i].st = "running" /\ batch_state'[i].st = "done"

\* the fetches in progress, the fetches made and the end of the batch
C29_Bounded ==
    mode = "batch" =>
        /\ Cardinality(C29_In("running")) <= config.max_concurrent_requests
        /\ Cardinality(C29_In("running")) = semaphore
        /\ Len(fetch_log) = Cardinality(C29_In("done"))
        /\ \A i \in DOMAIN batch_urls :
              Cardinality({ k \in DOMAIN fetch_log : fetch_log[k].url = batch_urls[i] })
                <= Cardinality({ j \in DOMAIN batch_urls : batch_urls[j] = batch_urls[i] })
        /\ pc = "done" <=> batch_results # <<>>
        /\ pc = "done" => C29_In("done") = DOMAIN batch_state
        /\ pc # "done" =>
              \/ C29_In("running") # {}
              \/ C29_In("waiting") # {}
                   /\ ~locked(semaphore, config.max_concurrent_requests)
              \/ C29_In("done") = DOMAIN batch_state

\* C29: at every moment at most max_concurrent_requests fetches of one
\* batch are in progress, every input URL's fetch is started exactly once
\* (the executor retries nothing), and the batch finishes once each fetch
\* has returned or raised.
C29_ConcurrencyBound ==
    /\ [][mode = "batch" => C29_Step]_vars
    /\ []C29_Bounded

\* with two permits and three URLs, two fetches are in progress and the
\* third waits for a permit
C29_ThirdWaits ==
    /\ mode = "batch"
    /\ config.max_concurrent_requests = 2
    /\ Len(batch_urls) = 3
    /\ Cardinality(C29_In("running")) = 2
    /\ Cardinality(C29_In("waiting")) = 1

\* C30: a batch job created by start_batch_scrape moves pending ->
\* running -> completed in the job store; once every URL has been
\* processed the stored completed + failed equals total, results hold one
\* record per URL, and completed_at is set.
C30_BatchJobCompleted ==
    (mode = "batch" /\ pc = "done") =>
        /\ job.status = "completed"
        /\ job.completed + job.failed = job.total
        /\ job.total = Len(batch_urls)
        /\ job.results # <<>>
        /\ job.completed_at # NoTime

\* the batch has returned its records and the stored row is the one
\* start_batch_scrape wrote
C30_FinishedLeftPending ==
    /\ mode = "batch" /\ pc = "done"
    /\ Len(batch_results) = 3
    /\ \E i \in DOMAIN batch_results : batch_results[i].success
    /\ job = NewBatchJob(batch_urls)
    /\ job.status = "pending" /\ job.completed = 0 /\ job.failed = 0

\* proxy p is in cooldown now
C24_Cooling(p) ==
    /\ proxy_pool.proxies[p].cooldown_until # NoTime
    /\ now < proxy_pool.proxies[p].cooldown_until

\* this step is a get_proxy call that returns proxy p
C24_Got(p) == in_flight'[p].held = in_flight[p].held + 1

\* this step is a report_failure call for proxy p
C24_Failed(p) ==
    proxy_pool'.proxies[p].failure_count = proxy_pool.proxies[p].failure_count + 1

\* a failure at or past the threshold leaves the proxy cooling for
\* cooldown_seconds; a cooling proxy is returned only when every proxy is
\* cooling; under round_robin a proxy whose cooldown has elapsed is
\* returned when the rotation reaches it
C24_Step ==
    \A p \in DOMAIN in_flight :
        /\ (C24_Failed(p)
              /\ proxy_pool'.proxies[p].failure_count >= max_failures) =>
               \A t \in now..(now + cooldown_seconds - 1) :
                   t < proxy_pool'.proxies[p].cooldown_until
        /\ (C24_Got(p) /\ C24_Cooling(p)) =>
               \A q \in DOMAIN in_flight : C24_Cooling(q)
        /\ ((\E q \in DOMAIN in_flight : C24_Got(q))
              /\ proxy_pool.rotation_strategy = "round_robin"
              /\ p = proxy_pool.current_index + 1
              /\ ~C24_Cooling(p)) => C24_Got(p)

\* C24: after max_failures (3) consecutive report_failure calls for a
\* proxy, get_proxy does not return that proxy as long as at least one
\* other proxy is healthy, until cooldown_seconds have elapsed since the
\* failure that started the cooldown, under the round_robin and under the
\* random strategy; once the cooldown has elapsed the proxy is eligible
\* again.
C24_CoolingProxySkipped == [][mode = "proxy" => C24_Step]_vars

\* a proxy that failed three times was passed over for the other proxy
\* during its cooldown and has just been returned again after it
C24_ReturnedAfterCooldown ==
    /\ mode = "proxy"
    /\ proxy_pool.rotation_strategy = "random"
    /\ \E p, q \in DOMAIN in_flight :
          /\ p # q
          /\ oplog = <<ProxyCall("get_proxy", p)>>
          /\ proxy_pool.proxies[p].failure_count = max_failures
          /\ proxy_pool.proxies[p].cooldown_until = cooldown_seconds
          /\ proxy_pool.proxies[p].last_used = now
          /\ now >= cooldown_seconds
          /\ proxy_pool.proxies[q].last_used = TickSeconds

\* the records at or past the threshold have cooldown_until set, the
\* others have never had it set
C25_Records ==
    mode = "proxy" =>
        \A p \in DOMAIN proxy_pool.proxies :
            proxy_pool.proxies[p].failure_count >= max_failures
                <=> proxy_pool.proxies[p].cooldown_until # NoTime

\* the report_failure that reaches or passes the threshold sets
\* cooldown_until to its own time plus cooldown_seconds; no other call
\* changes cooldown_until
C25_Step ==
    \A p \in DOMAIN proxy_pool.proxies :
        IF proxy_pool'.proxies[p].failure_count
               = proxy_pool.proxies[p].failure_count + 1
           /\ proxy_pool'.proxies[p].failure_count >= max_failures
        THEN proxy_pool'.proxies[p].cooldown_until = now + cooldown_seconds
        ELSE proxy_pool'.proxies[p].cooldown_until
               = proxy_pool.proxies[p].cooldown_until

\* C25: in every reachable state of the proxy pool a record with
\* failure_count >= max_failures has cooldown_until set, and immediately
\* after the report_failure that reaches or exceeds the threshold
\* cooldown_until equals the time of that report plus cooldown_seconds; a
\* record with failure_count < max_failures has never had cooldown_until
\* set.
C25_CooldownFollowsThreshold ==
    /\ [][mode = "proxy" => C25_Step]_vars
    /\ []C25_Records

\* a fourth failure, reported during the cooldown, has moved cooldown_until
\* to its own time plus cooldown_seconds, while the other proxy, with two
\* failures, has none
C25_FourthFailureRestarts ==
    /\ mode = "proxy"
    /\ \E p, q \in DOMAIN proxy_pool.proxies :
          /\ oplog = <<ProxyCall("report_failure", p)>>
          /\ proxy_pool.proxies[p].failure_count = max_failures + 1
          /\ now = TickSeconds
          /\ proxy_pool.proxies[p].cooldown_until = TickSeconds + cooldown_seconds
          /\ proxy_pool.proxies[q].failure_count = max_failures - 1
          /\ proxy_pool.proxies[q].cooldown_until = NoTime

\* the latest get_proxy call returned a proxy of the pool, and the next
\* call has a result
C26_Returned ==
    mode = "proxy" =>
        /\ get_proxy(proxy_pool, now) # {}
        /\ \A pk \in get_proxy(proxy_pool, now) :
              pk.idx \in DOMAIN proxy_pool.proxies
        /\ (oplog # <<>> /\ oplog[1].ev = "get_proxy") =>
              oplog[1].proxy \in DOMAIN proxy_pool.proxies

\* a get_proxy call made when every proxy is cooling returns the proxy
\* whose cooldown ends first
C26_Step ==
    \A p \in DOMAIN in_flight :
        (C24_Got(p) /\ \A q \in DOMAIN in_flight : C24_Cooling(q)) =>
            \A q \in DOMAIN in_flight :
                proxy_pool.proxies[p].cooldown_until
                    <= proxy_pool.proxies[q].cooldown_until

\* C26: get_proxy on a pool with at least one proxy always returns a
\* proxy, never null or an error; when every proxy is in cooldown it
\* returns the proxy whose cooldown_until is earliest.
C26_AlwaysAProxy ==
    /\ [][mode = "proxy" => C26_Step]_vars
    /\ []C26_Returned

\* both proxies are cooling, the second since an earlier time, and
\* get_proxy has just returned the second
C26_EarliestReturned ==
    /\ mode = "proxy"
    /\ Len(proxy_pool.proxies) = 2
    /\ oplog = <<ProxyCall("get_proxy", 2)>>
    /\ in_flight[2].held = 1
    /\ C24_Cooling(1) /\ C24_Cooling(2)
    /\ proxy_pool.proxies[2].cooldown_until < proxy_pool.proxies[1].cooldown_until

\* the proxy that the k-th probe of a round_robin search looks at
C27_Probe(k) ==
    ((proxy_pool.current_index + k) % Len(proxy_pool.proxies)) + 1

\* how often proxy p was handed out
C27_Uses(p) ==
    proxy_pool.proxies[p].success_count + proxy_pool.proxies[p].failure_count
        + in_flight[p].held

\* the rotation index is in range; while no proxy has ever cooled the
\* proxies were handed out in configuration order, round after round
C27_Rotation ==
    (mode = "proxy" /\ proxy_pool.rotation_strategy = "round_robin") =>
        LET n == Len(proxy_pool.proxies)
            u == uses_upto(proxy_pool, in_flight, n)
        IN  /\ proxy_pool.current_index \in 0..(n - 1)
            /\ (\A q \in 1..n : proxy_pool.proxies[q].cooldown_until = NoTime) =>
                  /\ proxy_pool.current_index = u % n
                  /\ \A q \in 1..n :
                        C27_Uses(q) = (u \div n) + (IF q <= u % n THEN 1 ELSE 0)

\* a round_robin search returns the first proxy, in cyclic order from the
\* index, that is not cooling, and leaves the index just behind it; no
\* other call moves the index
C27_Step ==
    proxy_pool.rotation_strategy = "round_robin" =>
        LET n == Len(proxy_pool.proxies)
        IN  \A p \in 1..n :
              IF C24_Got(p) /\ \E q \in 1..n : ~C24_Cooling(q)
              THEN \E k \in 0..(n - 1) :
                      /\ p = C27_Probe(k)
                      /\ ~C24_Cooling(p)
                      /\ \A j \in 0..(k - 1) : C24_Cooling(C27_Probe(j))
                      /\ proxy_pool'.current_index = C27_Probe(k) % n
              ELSE (\A q \in 1..n : ~C24_Got(q)) =>
                      proxy_pool'.current_index = proxy_pool.current_index

\* C27: under the round_robin strategy the rotation index stays within
\* 0..proxy_count-1 and advances cyclically: with all proxies healthy,
\* successive get_proxy calls return the proxies in configuration order,
\* each exactly once per proxy_count calls; a proxy in cooldown is skipped
\* and the next healthy one in cyclic order is returned, found within at
\* most proxy_count probes.
C27_RoundRobin ==
    /\ [][mode = "proxy" => C27_Step]_vars
    /\ []C27_Rotation

\* the first of two proxies is cooling after three failures and the
\* second has been handed out once more than the rotation alone gives it
C27_CoolingSkipped ==
    /\ mode = "proxy"
    /\ proxy_pool.rotation_strategy = "round_robin"
    /\ Len(proxy_pool.proxies) = 2
    /\ oplog = <<ProxyCall("get_proxy", 2)>>
    /\ C24_Cooling(1)
    /\ C27_Uses(1) = max_failures
    /\ C27_Uses(2) = max_failures + 1

\* no close() has started
C21_NeverClosed ==
    \A i \in DOMAIN in_flight :
        in_flight[i].kind = "close" => in_flight[i].st = "start"

\* C21: under any interleaving of concurrent initialize() and
\* get_context() calls on an uninitialized pool, the browser engine is
\* launched exactly once.
C21_LaunchedOnce ==
    (mode = "life" /\ C21_NeverClosed) => browser_pool.launched <= 1

\* C21, second half: initialize() on an initialized pool launches nothing
\* and changes no pool state.
C21_InitializedNoOp ==
    [][\A i \in 1..MaxLifeTasks :
          (/\ mode = "life"
           /\ in_flight[i].kind = "initialize"
           /\ in_flight[i].st = "start"
           /\ in_flight'[i].st # "start"
           /\ browser_pool.initialized)
          => /\ browser_pool' = browser_pool
             /\ in_flight'[i].st = "done"]_vars

\* two tasks found the pool uninitialized and each launched an engine
C21_TwoEngines ==
    /\ mode = "life"
    /\ C21_NeverClosed
    /\ browser_pool.launched = 2
    /\ \E i, j \in DOMAIN in_flight :
          /\ i # j
          /\ in_flight[i].kind = "get_context" /\ in_flight[i].st = "held"
          /\ in_flight[j].kind = "get_context" /\ in_flight[j].st = "held"

\* close() of task i returns in this step
C22_Returns(i) ==
    /\ in_flight[i].kind = "close"
    /\ in_flight[i].st # "done"
    /\ in_flight'[i].st = "done"

\* C22: after close() returns, every context the pool had created and not
\* yet destroyed, idle in the free stack or checked out by an in-flight
\* operation, has been closed (unless its close failed), the free stack
\* is empty, and the engine was closed only after those contexts.
C22_AllClosedAtReturn ==
    [][\A i \in 1..MaxLifeTasks :
          (mode = "life" /\ C22_Returns(i)) =>
              /\ browser_pool'.contexts = <<>>
              /\ ((1..browser_pool'.created) \ browser_pool'.closed)
                    \subseteq browser_pool'.close_failed
              /\ browser_pool'.left_open \subseteq browser_pool'.close_failed]_vars

\* close() has returned; a context that was checked out at the time was
\* open when the engine closed, was never closed, and now lies in the
\* free stack of the closed pool
C22_OpenContextInClosedPool ==
    /\ mode = "life"
    /\ ~browser_pool.initialized
    /\ \E i, j \in DOMAIN in_flight :
          /\ in_flight[i].kind = "close" /\ in_flight[i].st = "done"
          /\ in_flight[j].kind = "get_context" /\ in_flight[j].st = "done"
          /\ in_flight[j].context \in browser_pool.left_open
          /\ in_flight[j].context \notin browser_pool.closed
          /\ in_flight[j].context \notin browser_pool.close_failed
          /\ in_flight[j].context \in Range(browser_pool.contexts)

\* the awaits of the driver inside get_context
C23_DriverAwaits == {"creating", "clearing", "closing"}

\* C23: no task holds the browser pool's lock while it awaits a driver
\* operation (new_context, clear_cookies, context.close), so one slow
\* context construction or close never blocks other acquisitions and
\* releases.
C23_NoLockAcrossAwait ==
    mode = "life" =>
        \A i \in DOMAIN in_flight :
            in_flight[i].st \in C23_DriverAwaits => browser_pool.lock # i

\* a task awaits new_context() with the lock in its hand while another
\* waits for the lock to give its context back and a third to take one
C23_BlockedBehindConstruction ==
    /\ mode = "life"
    /\ \E i, j, m \in DOMAIN in_flight :
          /\ in_flight[i].st = "creating" /\ browser_pool.lock = i
          /\ in_flight[j].st = "want_release"
          /\ in_flight[m].st = "want_lock"

(***************************************************************************)
(* The crawl frontier and the start URL's host.                            *)
(***************************************************************************)
C33_SameOrigin(url) ==
    /\ urlparse(url).scheme = urlparse(op_url).scheme
    /\ urlparse(url).netloc = urlparse(op_url).netloc

\* C33: every URL a crawl enqueues has the scheme and the netloc of the
\* start URL, so no page of another host is fetched.
C33_SameHostEnqueued ==
    mode = "crawl" =>
        /\ \A k \in DOMAIN to_visit : C33_SameOrigin(to_visit[k][1])
        /\ \A i \in DOMAIN fetch_log : C33_SameOrigin(fetch_log[i].url)

\* the crawl of http://site/docs/ has called scrape_url for a URL of the
\* host site.internal, whose text begins with "http://site"
C33_OtherHostFetched ==
    /\ mode = "crawl"
    /\ op_url = U_start
    /\ \E i \in DOMAIN fetch_log :
          /\ fetch_log[i].url = U_cousin
          /\ urlparse(U_cousin).netloc # urlparse(op_url).netloc

(***************************************************************************)
(* The counters of the crawl's job row.                                    *)
(***************************************************************************)
\* while the loop runs the stored completed counter is the number of
\* accepted results and does not exceed the stored total
C36_ProgressConsistent ==
    (mode = "crawl" /\ pc \in {"loop", "done"}) =>
        /\ job.completed = Len(results)
        /\ job.completed <= job.total

\* C36: at every job-store update of a crawl the stored completed counter
\* is the number of results accepted so far and completed <= total, and a
\* job marked completed stores total = completed = the number of result
\* records stored, also for a crawl that accepted no page.
C36_CountersMatchResults ==
    /\ C36_ProgressConsistent
    /\ (mode = "crawl" /\ job.status = "completed") =>
          /\ job.results = <<results>>
          /\ job.total = Len(results)
          /\ job.completed = Len(results)

\* a crawl whose only fetch was not accepted is completed with no result
\* record and a stored total of 1
C36_EmptyCrawlTotalOne ==
    /\ mode = "crawl" /\ pc = "done"
    /\ job.status = "completed"
    /\ job.results = << <<>> >>
    /\ fetch_log # <<>>
    /\ job.completed = 0
    /\ job.total = 1

(***************************************************************************)
(* The pattern filter and the start URL.                                   *)
(***************************************************************************)
\* the start URL matches an exclude pattern, or include patterns are given
\* and it matches none
C39_StartFiltered ==
    \/ \E i \in DOMAIN config.exclude_patterns :
          fnmatch(op_url, config.exclude_patterns[i])
    \/ /\ config.include_patterns # <<>>
       /\ \A i \in DOMAIN config.include_patterns :
             ~fnmatch(op_url, config.include_patterns[i])

\* C39: the start URL passes through the include/exclude filter like every
\* frontier entry: when it matches an exclude pattern, or no include
\* pattern while some are given, the crawl fetches nothing and the job is
\* marked completed with zero results.
C39_FilteredStartFetchesNothing ==
    (mode = "crawl" /\ C39_StartFiltered) =>
        /\ fetch_log = <<>> /\ visited = {} /\ results = <<>>
        /\ to_visit \in { << <<op_url, 0>> >>, <<>> }
        /\ (pc = "loop" /\ to_visit = <<>>) => ~loop_continues
        /\ pc = "done" =>
              /\ job.status = "completed"
              /\ job.results = << <<>> >>
              /\ job.completed = 0

\* the crawl of a start URL that matches none of the include patterns
\* has ended
C39_UnincludedStartCompleted ==
    /\ mode = "crawl" /\ pc = "done"
    /\ op_url = U_local /\ config.include_patterns = <<P_docs>>
    /\ C39_StartFiltered
    /\ job.status = "completed"

\* the crawl of a start URL that an exclude pattern matches has ended with
\* no fetch and a completed job
C39_ExcludedStartCompleted ==
    /\ mode = "crawl" /\ pc = "done"
    /\ op_url = U_start /\ config.exclude_patterns = <<P_docs>>
    /\ C39_StartFiltered
    /\ job.status = "completed"
    /\ fetch_log = <<>>

(***************************************************************************)
(* The depth a result carries.                                             *)
(***************************************************************************)
\* the frontier entries of a URL
C40_Waiting(url) == { k \in DOMAIN to_visit : to_visit[k][1] = url }

\* one iteration: a fetched entry is no deeper than any waiting entry of
\* its URL and an accepted page is stored with the fetched entry's depth;
\* an entry is passed over only when its URL was fetched before or the
\* patterns reject it, and then no later entry of that URL is fetched
C40_Step ==
    (mode = "crawl" /\ pc = "loop" /\ to_visit' # to_visit) =>
        /\ IsFetch =>
              /\ Last(fetch_log').url = Head(to_visit)[1]
              /\ Last(fetch_log').depth = Head(to_visit)[2]
              /\ \A k \in C40_Waiting(Head(to_visit)[1]) :
                    to_visit[k][2] >= Last(fetch_log').depth
              /\ results' # results =>
                    results' = Append(results,
                                      [url   |-> Head(to_visit)[1],
                                       depth |-> Head(to_visit)[2]])
        /\ ~IsFetch =>
              /\ results' = results
              /\ \/ Head(to_visit)[1] \in visited
                 \/ ~should_crawl_url(Head(to_visit)[1], config.include_patterns,
                                      config.exclude_patterns)

\* C40: every URL in the results carries the smallest depth at which it
\* was ever enqueued: of several frontier entries of one URL the first
\* dequeued is the one fetched and has the minimum depth, and the later
\* ones are skipped as visited.
C40_MinimumDepth ==
    /\ [][C40_Step]_vars
    /\ [](mode = "crawl" =>
            /\ \A i \in DOMAIN results :
                  /\ results[i].url \in visited
                  /\ \A k \in C40_Waiting(results[i].url) :
                        to_visit[k][2] >= results[i].depth
            /\ \A k \in DOMAIN to_visit :
                  /\ to_visit[k][2] <= config.depth
                  /\ k > 1 => to_visit[k - 1][2] <= to_visit[k][2])

\* a URL stored at depth 1 still waits in the frontier at depth 2
C40_DeeperEntryLeft ==
    /\ mode = "crawl"
    /\ \E i \in DOMAIN results, k \in DOMAIN to_visit :
          /\ results[i].url = to_visit[k][1]
          /\ results[i].depth = 1
          /\ to_visit[k][2] = 2

(***************************************************************************)
(* The gate and the resolution of host names.                              *)
(***************************************************************************)
\* the host of the checked URL is a name, not an IP literal
C34_NamedHost ==
    /\ urlparse(op_url).hostname # <<>>
    /\ ~is_ip_literal(urlparse(op_url).hostname)

\* the part that holds: a named host whose resolution gave a blocked
\* address is never passed
C34_BlockedResolutionFails ==
    (mode = "gate" /\ pc = "done" /\ C34_NamedHost /\ verdict.ok) =>
        /\ verdict.answer # "raise"
        /\ verdict.answer # None => ~is_ip_blocked(verdict.answer)

\* C34: validate_url passes a URL whose host is a name only if the name
\* resolves to an IP outside the deny-list; a name that does not resolve
\* is not passed.
C34_PassedOnlyIfResolved ==
    (mode = "gate" /\ pc = "done" /\ C34_NamedHost /\ verdict.ok) =>
        /\ verdict.answer \notin {None, "raise"}
        /\ ~is_ip_blocked(verdict.answer)

\* http://nxdomain.test, for which gethostbyname raised gaierror, passed
C34_UnresolvedPassed ==
    /\ mode = "gate" /\ pc = "done"
    /\ op_url = <<"http", "://", "nxdomain.test">>
    /\ verdict.answer = None
    /\ verdict.ok

(***************************************************************************)
(* What report_success and get_proxy leave alone.                          *)
(***************************************************************************)
\* the counters and the cooldown of record p are as before the step
C35_HealthKept(p) ==
    /\ proxy_pool'.proxies[p].server = proxy_pool.proxies[p].server
    /\ proxy_pool'.proxies[p].success_count = proxy_pool.proxies[p].success_count
    /\ proxy_pool'.proxies[p].failure_count = proxy_pool.proxies[p].failure_count
    /\ proxy_pool'.proxies[p].cooldown_until = proxy_pool.proxies[p].cooldown_until

\* a call of the pool (the clock stands still during it)
C35_Call(ev, p) == now' = now /\ oplog' = <<ProxyCall(ev, p)>>

C35_Step ==
    /\ DOMAIN proxy_pool'.proxies = DOMAIN proxy_pool.proxies
    /\ \A p \in DOMAIN proxy_pool.proxies :
          /\ C35_Call("report_success", p) =>
                proxy_pool' = [proxy_pool EXCEPT !.proxies[p].success_count = @ + 1]
          /\ C35_Call("get_proxy", p) =>
                \A q \in DOMAIN proxy_pool.proxies : C35_HealthKept(q)
          /\ (~is_healthy(proxy_pool.proxies[p], now)
                /\ is_healthy(proxy_pool'.proxies[p], now')) =>
                /\ now' > now
                /\ now' >= proxy_pool.proxies[p].cooldown_until
                /\ proxy_pool' = proxy_pool

\* C35: report_success changes nothing but the success_count of the
\* matching record, which it increments by 1; it never clears or shortens
\* cooldown_until and never lowers failure_count, and get_proxy changes no
\* counter or cooldown either, so a proxy leaves its cooldown only through
\* the passage of time.
C35_SuccessLeavesCooldown ==
    [][mode = "proxy" => C35_Step]_vars

\* a success was reported for a proxy in cooldown, which is still cooling
\* with its three failures
C35_SuccessDuringCooldown ==
    /\ mode = "proxy"
    /\ \E p \in DOMAIN proxy_pool.proxies :
          /\ oplog = <<ProxyCall("report_success", p)>>
          /\ proxy_pool.proxies[p].success_count = 1
          /\ proxy_pool.proxies[p].failure_count = max_failures
          /\ ~is_healthy(proxy_pool.proxies[p], now)

(***************************************************************************)
(* Failures after the threshold.                                           *)
(***************************************************************************)
\* the latest call of the pool was report_failure for proxy p
C38_Failed(p) == now' = now /\ oplog' = <<ProxyCall("report_failure", p)>>

C38_Step ==
    \A p \in DOMAIN proxy_pool.proxies :
        /\ proxy_pool'.proxies[p].failure_count
              >= proxy_pool.proxies[p].failure_count
        /\ (C38_Failed(p)
              /\ proxy_pool.proxies[p].failure_count >= max_failures) =>
              /\ proxy_pool'.proxies[p].failure_count
                    = proxy_pool.proxies[p].failure_count + 1
              /\ proxy_pool'.proxies[p].cooldown_until = now + cooldown_seconds
              /\ ~is_healthy(proxy_pool'.proxies[p], now')

\* C38: failure_count never decreases and is never reset, so once a proxy
\* has reached max_failures every later report_failure, during the
\* cooldown or after it has expired, sets cooldown_until to the time of
\* that report plus cooldown_seconds: one failure after recovery puts the
\* proxy straight back into cooldown.
C38_OneFailureAfterRecovery ==
    /\ [][mode = "proxy" => C38_Step]_vars
    /\ [](mode = "proxy" =>
            \A p \in DOMAIN proxy_pool.proxies :
                proxy_pool.proxies[p].failure_count >= max_failures =>
                    proxy_pool.proxies[p].cooldown_until # NoTime)

\* a proxy with three failures whose cooldown is over has been handed out
\* again as healthy and its use is still running
C38_RecoveredInUse ==
    /\ mode = "proxy"
    /\ \E p \in DOMAIN proxy_pool.proxies :
          /\ proxy_pool.proxies[p].failure_count = max_failures
          /\ proxy_pool.proxies[p].cooldown_until # NoTime
          /\ proxy_pool.proxies[p].cooldown_until <= proxy_pool.proxies[p].last_used
          /\ in_flight[p].held = 1

\* the fourth failure of a proxy, reported at MaxTime for a use handed out
\* at MaxTime, has put it into a cooldown that ends cooldown_seconds later
C38_BackInCooldown ==
    /\ mode = "proxy"
    /\ now = MaxTime
    /\ \E p \in DOMAIN proxy_pool.proxies :
          /\ oplog = <<ProxyCall("report_failure", p)>>
          /\ proxy_pool.proxies[p].failure_count = max_failures + 1
          /\ proxy_pool.proxies[p].success_count = 0
          /\ in_flight[p].held = 0
          /\ proxy_pool.proxies[p].last_used = MaxTime
          /\ proxy_pool.proxies[p].cooldown_until = MaxTime + cooldown_seconds
          /\ ~is_healthy(proxy_pool.proxies[p], now)

(***************************************************************************)
(* Contexts that outlive close().                                          *)
(***************************************************************************)
\* a close() has returned and none is running
C37_Closed ==
    /\ \E i \in DOMAIN in_flight :
          in_flight[i].kind = "close" /\ in_flight[i].st = "done"
    /\ \A i \in DOMAIN in_flight :
          in_flight[i].kind = "close" => in_flight[i].st \in {"start", "done"}

\* a get_context that returns its context after close() returns none of
\* the contexts that were open when the engine was closed
C37_Step ==
    \A j \in DOMAIN in_flight :
        (/\ C37_Closed
         /\ in_flight[j].kind = "get_context"
         /\ in_flight[j].st # "held"
         /\ in_flight'[j].st = "held") =>
            in_flight'[j].context \notin browser_pool.left_open

\* C37: after close() no later get_context returns a context created
\* before that close(): a poolable context that was checked out during
\* close() and released afterwards is not pushed onto the free stack and
\* handed out once the pool has re-initialized with a new engine.
C37_NoContextOfClosedEngine ==
    [][mode = "life" => C37_Step]_vars

\* after close() a second engine was launched and a task holds the context
\* that another task had checked out during close() and gave back later
C37_StaleContextHandedOut ==
    /\ mode = "life"
    /\ C37_Closed
    /\ browser_pool.launched = 2
    /\ \E i, j \in DOMAIN in_flight :
          /\ i # j
          /\ in_flight[i].kind = "get_context" /\ in_flight[i].st = "done"
          /\ in_flight[j].kind = "get_context" /\ in_flight[j].st = "held"
          /\ in_flight[j].context = in_flight[i].context
          /\ in_flight[j].context \in browser_pool.left_open
          /\ in_flight[j].context \notin browser_pool.closed

(***************************************************************************)
(* Stop requests.                                                          *)
(***************************************************************************)
\* a step taken while the stop signal stands starts no fetch: the crawl
\* loop calls scrape_url for no further URL and no waiting task of a batch
\* enters its fetch; fetches in flight may end
C31_Step ==
    job.status = "stop_requested" =>
        /\ mode = "crawl" => fetch_log' = fetch_log
        /\ mode = "batch" =>
              \A i \in DOMAIN batch_state :
                  batch_state[i].st = "waiting" => batch_state'[i].st = "waiting"

\* C31: when a stop request is signalled on a running crawl or batch
\* through its job status, the loop observes it at its next iteration and
\* starts no further fetch; fetches in flight are left to end on their own.
C31_NoFetchAfterStop ==
    [][C31_Step]_vars

\* a crawl that has fetched a page and whose job asks it to stop is at the
\* top of an iteration that goes on to fetch the next URL
C31_StopPendingFetchNext ==
    /\ mode = "crawl" /\ pc = "loop"
    /\ job.status = "stop_requested"
    /\ fetch_log # <<>>
    /\ loop_continues
    /\ ~skipped

(***************************************************************************)
(* Two crawls with the same inputs.                                        *)
(***************************************************************************)
\* the locals and the job row of a run, without the process's hash seed
C32_Locals(c) == [c EXCEPT !.hash_seed = 0]

====
